---------------------------- MODULE Spec2Model ----------------------------
(***************************************************************************)
(* Random forest / CART / Gini gain of shuLhan/go-mining.                  *)
(*                                                                         *)
(* Conventions.  Go slices are 0-based, TLA+ sequences 1-based: column and *)
(* partition positions are shifted by one, sample (row) indices kept in    *)
(* bagIndices are the Go values 0..N-1.  float64 values are modelled by    *)
(* exact rationals <<num, den>>; <<0, 0>> is NaN (the result of 0/0).      *)
(* Continuous thresholds are halves of integers and are stored doubled.    *)
(***************************************************************************)
EXTENDS Integers, Sequences, FiniteSets, TLC

\* ------------------------------------------------------------------ bounds
MaxVal == 2          \* continuous attribute values are 0..MaxVal
MaxRows == 3         \* rows of a dataset handed to the tree builder
MaxForestRows == 2   \* rows of the samples handed to Build
MaxForestVal == 1    \* continuous values of those samples are 0..MaxForestVal
MaxTree == 2         \* NTree is drawn from 1..MaxTree
MaxInitRows == 3     \* rows of the samples handed to Initialize on its own
MaxColumn == 5       \* columns of the samples handed to Initialize on its own
MaxStatRows == 3     \* classes handed to one Runtime.ComputeCM call
MaxStatTree == 2     \* confusion matrices one classifier.Runtime is given
MaxFail == 1         \* GrowTree calls that return an error in one Build
MaxGiniVal == 3      \* values of the attribute given to ComputeContinu: 0..MaxGiniVal
MaxGiniRows == 4     \* samples given to ComputeContinu
MaxDiscRows == 2     \* samples given to ComputeDiscrete
MaxSet == 6          \* elements of the set given to PartitioningTableStrings

\* ---------------------------------------------------------- program constants
ColFlagParent == 1
ColFlagSkip == 2

\* ------------------------------------------------------------ the datasets
\* Every dataset has a continuous attribute, a discrete attribute and the
\* class, in this order.
ColumnTypes == <<"real", "nominal", "class">>
NColumn == Len(ColumnTypes)
ColReal == CHOOSE x \in 1..NColumn : ColumnTypes[x] = "real"
ColNominal == CHOOSE x \in 1..NColumn : ColumnTypes[x] = "nominal"
ClassIndex == CHOOSE x \in 1..NColumn : ColumnTypes[x] = "class"

ClassVS == <<"P", "N">>
NominalVS == <<"x", "y">>

\* ------------------------------------------------------------- sequences
Range(s) == {s[i] : i \in 1..Len(s)}

RECURSIVE SumSeq(_)
SumSeq(s) == IF s = <<>> THEN 0 ELSE Head(s) + SumSeq(Tail(s))

RECURSIVE Concat(_)
Concat(ss) == IF ss = <<>> THEN <<>> ELSE Head(ss) \o Concat(Tail(ss))

Count(s, v) == Cardinality({i \in 1..Len(s) : s[i] = v})

Swap(s, i, j) == [s EXCEPT ![i] = s[j], ![j] = s[i]]

\* --------------------------------------------------------------- float64
RECURSIVE GCD(_, _)
GCD(a, b) == IF b = 0 THEN a ELSE GCD(b, a % b)

Abs(x) == IF x < 0 THEN -x ELSE x

NaN == <<0, 0>>
Zero == <<0, 1>>
PosInf == <<1, 0>>
IsNaN(a) == a[1] = 0 /\ a[2] = 0

\* n/d as float64 division does it: 0/0 is NaN.
Rat(n, d) ==
    IF d = 0 THEN NaN
    ELSE LET g == GCD(Abs(n), Abs(d))
             s == IF d < 0 THEN -1 ELSE 1
         IN  <<(s * n) \div g, (s * d) \div g>>

RAdd(a, b) == IF IsNaN(a) \/ IsNaN(b) THEN NaN
              ELSE Rat(a[1] * b[2] + b[1] * a[2], a[2] * b[2])
RSub(a, b) == IF IsNaN(a) \/ IsNaN(b) THEN NaN
              ELSE Rat(a[1] * b[2] - b[1] * a[2], a[2] * b[2])
RMul(a, b) == IF IsNaN(a) \/ IsNaN(b) THEN NaN
              ELSE Rat(a[1] * b[1], a[2] * b[2])
RDivInt(a, k) == IF IsNaN(a) THEN NaN ELSE Rat(a[1], a[2] * k)
\* a < b ; any comparison with NaN is false.
RLess(a, b) == ~IsNaN(a) /\ ~IsNaN(b) /\ a[1] * b[2] < b[1] * a[2]

RECURSIVE RSum(_)
RSum(s) == IF s = <<>> THEN Zero ELSE RAdd(Head(s), RSum(Tail(s)))

\* 1 / a for a value a that is not negative: 1 / 0 is +Inf.
FInv(a) == IF IsNaN(a) THEN NaN
           ELSE IF a = PosInf THEN Zero
           ELSE IF a[1] = 0 THEN PosInf
           ELSE Rat(a[2], a[1])

\* a + b where a or b may be +Inf.
FAdd(a, b) == IF IsNaN(a) \/ IsNaN(b) THEN NaN
              ELSE IF a = PosInf \/ b = PosInf THEN PosInf
              ELSE RAdd(a, b)

\* n / a for an integer n > 0 and a value a that is not negative.
FDivInt(n, a) == IF IsNaN(a) THEN NaN
                 ELSE IF a = PosInf THEN Zero
                 ELSE IF a[1] = 0 THEN PosInf
                 ELSE Rat(n * a[2], a[1])

\* ------------------------------------------------------------ set partitions
\* A Go slice of strings is <<array, len>>: a position in the heap of backing
\* arrays and the number of elements in use; the capacity of the slice is
\* the length of the array (unused cells hold "").  Slices that were copied
\* from one another share their array.
MakeStrings(heap, vals) ==
    [heap |-> Append(heap, vals), slice |-> <<Len(heap) + 1, Len(vals)>>]

\* The capacity append() gives the new array when the old one is full (the
\* runtime doubles small slices).
GrowCap(cap, needed) == IF needed > 2 * cap THEN needed ELSE 2 * cap

\* append(sl, el): written in place when the array has room, otherwise into
\* a new array.
AppendString(heap, sl, el) ==
    IF sl[2] < Len(heap[sl[1]])
    THEN [heap |-> [heap EXCEPT ![sl[1]][sl[2] + 1] = el],
          slice |-> <<sl[1], sl[2] + 1>>]
    ELSE LET newcap == GrowCap(sl[2], sl[2] + 1)
             vals == SubSeq(heap[sl[1]], 1, sl[2]) \o <<el>>
         IN  [heap |-> Append(heap,
                         vals \o [i \in 1..(newcap - Len(vals)) |-> ""]),
              slice |-> <<Len(heap) + 1, sl[2] + 1>>]

\* The elements of a slice.
StringsOf(heap, sl) == SubSeq(heap[sl[1]], 1, sl[2])

\* The one element of a set of one element.
TheOne(S) == CHOOSE x \in S : TRUE

\* First loop of PartitioningTableStrings: for every list of genset and
\* every group s of it, a copy of the list with el appended to group s.
\* joinElement runs the iterations lo..hi of the loop, in order, from the
\* heap and result st; iteration i is about list sub and group s.
RECURSIVE joinElement(_, _, _, _, _, _)
joinElement(st, genset, k, el, lo, hi) ==
    IF lo > hi THEN st
    ELSE IF lo = hi
    THEN LET sub == ((lo - 1) \div k) + 1
             s == ((lo - 1) % k) + 1
             a == AppendString(st.heap, genset[sub][s], el)
         IN  [heap |-> a.heap,
              rset |-> Append(st.rset, [genset[sub] EXCEPT ![s] = a.slice])]
    ELSE TheOne({ joinElement(half, genset, k, el, ((lo + hi) \div 2) + 1, hi) :
            half \in {joinElement(st, genset, k, el, lo, (lo + hi) \div 2)} })

\* Second loop: a copy of every list of genset with the new group {el};
\* iterations lo..hi.
RECURSIVE appendElement(_, _, _, _, _)
appendElement(st, genset, el, lo, hi) ==
    IF lo > hi THEN st
    ELSE IF lo = hi
    THEN LET m == MakeStrings(st.heap, <<el>>)
         IN  [heap |-> m.heap,
              rset |-> Append(st.rset, Append(genset[lo], m.slice))]
    ELSE TheOne({ appendElement(half, genset, el, ((lo + hi) \div 2) + 1, hi) :
            half \in {appendElement(st, genset, el, lo, (lo + hi) \div 2)} })

\* n new groups of one element each.
RECURSIVE makeSingles(_, _, _)
makeSingles(heap, seed, subset) ==
    IF seed = <<>> THEN [heap |-> heap, rset |-> <<subset>>]
    ELSE TheOne({ makeSingles(m.heap, Tail(seed), Append(subset, m.slice)) :
            m \in {MakeStrings(heap, <<Head(seed)>>)} })

\* PartitioningTableStrings on the heap: the table of slices and the heap
\* they live in.
RECURSIVE partitioningHeap(_, _, _)
partitioningHeap(heap, seed, k) ==
    IF k = 1
    THEN LET m == MakeStrings(heap, seed)
         IN  [heap |-> m.heap, rset |-> << <<m.slice>> >>]
    ELSE IF Len(seed) = k THEN makeSingles(heap, seed, <<>>)
    ELSE TheOne(UNION { UNION {
            { appendElement([heap |-> genset2.heap, rset |-> joined.rset],
                            genset2.rset, seed[1], 1, Len(genset2.rset)) :
                genset2 \in {partitioningHeap(joined.heap, Tail(seed), k - 1)} } :
              joined \in {joinElement([heap |-> genset.heap, rset |-> <<>>],
                                      genset.rset, k, seed[1], 1,
                                      k * Len(genset.rset))} } :
            genset \in {partitioningHeap(heap, Tail(seed), k)} })

\* PartitioningTableStrings(orgseed, k): the groupings of the elements into
\* k groups as the caller reads them when the function has returned; result
\* is a sequence (table) of sequences (lists) of sequences (groups) in the
\* order the code appends them.
PartitioningTableStrings(orgseed, k) ==
    LET r == partitioningHeap(<<>>, orgseed, k)
    IN  [sub \in 1..Len(r.rset) |->
           [s \in 1..Len(r.rset[sub]) |-> StringsOf(r.heap, r.rset[sub][s])]]

\* createDiscretePartition: no partition for an empty value space.
createDiscretePartition(discval) ==
    IF Len(discval) <= 0 THEN <<>> ELSE PartitioningTableStrings(discval, 2)

\* ------------------------------------------------------------------ gini
\* Gini.compute: 1 - sum of squared class proportions of the targets in T;
\* 0 for an empty T.
RECURSIVE SumP2(_, _)
SumP2(T, S) ==
    IF S = {} THEN Zero
    ELSE LET c == CHOOSE x \in S : TRUE
             p == Rat(Count(T, c), Len(T))
         IN  RAdd(RMul(p, p), SumP2(T, S \ {c}))

compute(T) ==
    IF Len(T) = 0 THEN Zero ELSE RSub(<<1, 1>>, SumP2(T, Range(T)))

\* util.IndirectSort: ascending, stable; returns the sorted positions.
RECURSIVE InsertSorted(_, _, _)
InsertSorted(A, idx, i) ==
    IF idx = <<>> THEN <<i>>
    ELSE IF A[i] < A[Head(idx)] THEN <<i>> \o idx
    ELSE <<Head(idx)>> \o InsertSorted(A, Tail(idx), i)

RECURSIVE IndirectSortUpTo(_, _)
IndirectSortUpTo(A, n) ==
    IF n = 0 THEN <<>>
    ELSE InsertSorted(A, IndirectSortUpTo(A, n - 1), n)

IndirectSort(A) == IndirectSortUpTo(A, Len(A))

ApplyIndex(s, idx) == [i \in 1..Len(idx) |-> s[idx[i]]]

\* Gini.sortTarget: walks the sorted index and swaps T[i] with
\* T[SortedIndex[i]] whenever SortedIndex[i] > i.
RECURSIVE sortTargetFrom(_, _, _)
sortTargetFrom(T, idx, i) ==
    IF i > Len(idx) THEN T
    ELSE sortTargetFrom(IF idx[i] > i THEN Swap(T, i, idx[i]) ELSE T,
                        idx, i + 1)

sortTarget(T, idx) == sortTargetFrom(T, idx, 1)

\* Gini.createContinuPartition on the sorted values A (thresholds doubled):
\* first value halved, the midpoints that are not a value of A[i..], and
\* first threshold + last value.
createContinuPartitionMutant(A) ==
    LET l == Len(A)
        mids == [i \in 1..(l - 1) |-> <<A[i] + A[i + 1]>>]
    IN  <<A[1]>> \o Concat(mids) \o <<A[1] + 2 * A[l]>>

createContinuPartition(A) ==
    LET l == Len(A)
        mids == [i \in 1..(l - 1) |->
                   LET sum == A[i] + A[i + 1]
                   IN  IF \E j \in i..l : 2 * A[j] = sum
                       THEN <<>> ELSE <<sum>>]
    IN  <<A[1]>> \o Concat(mids) \o <<A[1] + 2 * A[l]>>

\* The running maximum of computeContinuGain / computeDiscreteGain:
\* MaxGainValue starts at 0, MaxPartGain at the first partition, and both
\* move only when a gain is strictly greater.
RECURSIVE MaxGainFromMutant(_, _, _, _)
MaxGainFromMutant(Gain, p, best, bestIdx) ==
    IF p > Len(Gain) THEN [MaxGainValue |-> best, MaxPartGain |-> bestIdx]
    ELSE IF ~RLess(Gain[p], best)
         THEN MaxGainFromMutant(Gain, p + 1, Gain[p], p)
         ELSE MaxGainFromMutant(Gain, p + 1, best, bestIdx)

RECURSIVE MaxGainFrom(_, _, _, _)
MaxGainFrom(Gain, p, best, bestIdx) ==
    IF p > Len(Gain) THEN [MaxGainValue |-> best, MaxPartGain |-> bestIdx]
    ELSE IF RLess(best, Gain[p])
         THEN MaxGainFrom(Gain, p + 1, Gain[p], p)
         ELSE MaxGainFrom(Gain, p + 1, best, bestIdx)

\* Position of the first sorted value greater than the threshold, as a count
\* of the values before it (partidx).
PartIdx(A, part2) ==
    Cardinality({a \in 1..Len(A) : \A b \in 1..a : ~(2 * A[b] > part2)})

\* One iteration of the loop of Gini.computeContinuGain, for the threshold
\* part2 (doubled) over the sorted values A and the targets T: where the
\* samples are cut, the Gini index of both sides, and the gain.
continuGainOf(A, T, Value, part2) ==
    LET nsample == Len(A)
        partidx == PartIdx(A, part2)
        pleft == Rat(partidx, nsample)
        pright == Rat(nsample - partidx, nsample)
        gleft == IF partidx > 0 THEN compute(SubSeq(T, 1, partidx))
                 ELSE Zero
        gright == IF partidx > 0
                  THEN compute(SubSeq(T, partidx + 1, nsample))
                  ELSE compute(T)
        index == RAdd(RMul(pleft, gleft), RMul(pright, gright))
    IN  [partidx |-> partidx, sides |-> <<gleft, gright>>,
         gain |-> RSub(Value, index)]

\* Gini.computeContinuGain: gain of every threshold over the sorted values A
\* and the targets T.
computeContinuGain(A, T, Value, ContinuPart) ==
    [p \in 1..Len(ContinuPart) |-> continuGainOf(A, T, Value, ContinuPart[p]).gain]

\* The zero value of a Gini record (class column, skipped columns).
\* Sorted, PartIdx and PartGini are not fields of the program: they keep what
\* the computation saw (the sorted values and targets, where each threshold
\* cut the samples, the Gini index of each side of each partition).
GiniZero ==
    [Skip |-> FALSE, IsContinu |-> FALSE, Value |-> Zero,
     MaxPartGain |-> 1, MaxGainValue |-> Zero, SortedIndex |-> <<>>,
     ContinuPart |-> <<>>, DiscretePart |-> <<>>, Gain |-> <<>>,
     Sorted |-> <<>>, PartIdx |-> <<>>, PartGini |-> <<>>]

\* Gini.ComputeContinu(A, T, C)
ComputeContinu(A, T) ==
    LET idx == IndirectSort(A)
        A2 == ApplyIndex(A, idx)
        T2 == sortTarget(T, idx)
        part == createContinuPartition(A2)
        value == compute(T2)
        gain == computeContinuGain(A2, T2, value, part)
        max == MaxGainFrom(gain, 1, Zero, 1)
    IN  [Skip |-> FALSE, IsContinu |-> TRUE, Value |-> value,
         MaxPartGain |-> max.MaxPartGain, MaxGainValue |-> max.MaxGainValue,
         SortedIndex |-> idx, ContinuPart |-> part, DiscretePart |-> <<>>,
         Gain |-> gain,
         Sorted |-> <<A2, T2>>,
         PartIdx |-> [p \in 1..Len(part) |->
                        continuGainOf(A2, T2, value, part[p]).partidx],
         PartGini |-> [p \in 1..Len(part) |->
                        continuGainOf(A2, T2, value, part[p]).sides]]

\* Gini.computeDiscreteGain: gain of every two-way partition of the value
\* space; the targets of a group are those of the rows whose value is in it.
\* subT(A, T, part): the targets of the samples whose value is an element
\* of the group part, element by element.
subT(A, T, part) ==
    Concat([e \in 1..Len(part) |->
              Concat([t \in 1..Len(A) |->
                        IF A[t] = part[e] THEN <<T[t]>> ELSE <<>>])])

computeDiscreteGain(A, T, Value, DiscretePart) ==
    LET nsample == Len(A)
        ProbIndex(part) == RMul(Rat(Len(subT(A, T, part)), nsample),
                                compute(subT(A, T, part)))
        GainOf(i) == RSub(Value,
                       RSum([g \in 1..Len(DiscretePart[i]) |->
                               ProbIndex(DiscretePart[i][g])]))
    IN  [i \in 1..Len(DiscretePart) |-> GainOf(i)]

\* Gini.ComputeDiscrete(A, discval, T, C)
ComputeDiscrete(A, discval, T) ==
    LET part == createDiscretePartition(discval)
        value == compute(T)
        gain == computeDiscreteGain(A, T, value, part)
        max == MaxGainFrom(gain, 1, Zero, 1)
    IN  [Skip |-> FALSE, IsContinu |-> FALSE, Value |-> value,
         MaxPartGain |-> max.MaxPartGain, MaxGainValue |-> max.MaxGainValue,
         SortedIndex |-> <<>>, ContinuPart |-> <<>>, DiscretePart |-> part,
         Gain |-> gain,
         Sorted |-> <<>>, PartIdx |-> <<>>,
         PartGini |-> [i \in 1..Len(part) |-> [g \in 1..Len(part[i]) |->
                          compute(subT(A, T, part[i][g]))]]]

\* gini.FindMaxGain: first column whose best gain is strictly greater than
\* every earlier one; the first column when every gain is 0.
RECURSIVE FindMaxGainFrom(_, _, _, _)
FindMaxGainFrom(gains, i, maxGainValue, MaxGainIdx) ==
    IF i > Len(gains) THEN MaxGainIdx
    ELSE IF RLess(maxGainValue, gains[i].MaxGainValue)
         THEN FindMaxGainFrom(gains, i + 1, gains[i].MaxGainValue, i)
         ELSE FindMaxGainFrom(gains, i + 1, maxGainValue, MaxGainIdx)

FindMaxGain(gains) == FindMaxGainFrom(gains, 1, Zero, 1)

\* --------------------------------------------------------------- dataset
\* A row is <<continuous value, nominal value, class>>.  A dataset (Reader)
\* holds its rows, one flag per column and the cached MajorityClass; Ids
\* names, for every row, the position it had in the set given to the
\* builder (bookkeeping of the model, not a column of the program).
Column(rows, x) == [i \in 1..Len(rows) |-> rows[i][x]]

\* util.IntFindMax: position of the first maximum.
IntFindMax(d) ==
    CHOOSE i \in 1..Len(d) :
        /\ \A j \in 1..Len(d) : d[j] <= d[i]
        /\ \A j \in 1..(i - 1) : d[j] < d[i]

\* util.IntFindMin: position of the first minimum.
IntFindMin(d) ==
    CHOOSE i \in 1..Len(d) :
        /\ \A j \in 1..Len(d) : d[j] >= d[i]
        /\ \A j \in 1..(i - 1) : d[j] > d[i]

\* Reader.CountMajorMinorClass: counts the targets per class of the value
\* space and keeps the class with the first maximal count.
CountMajorMinorClassMutant(rows) ==
    LET targetV == Column(rows, ClassIndex)
        classCount == [k \in 1..Len(ClassVS) |-> Count(targetV, ClassVS[k])]
    IN  ClassVS[IntFindMin(classCount)]

CountMajorMinorClass(rows) ==
    LET targetV == Column(rows, ClassIndex)
        classCount == [k \in 1..Len(ClassVS) |-> Count(targetV, ClassVS[k])]
    IN  ClassVS[IntFindMax(classCount)]

\* Reader.IsInSingleClass: (single, class); not single for an empty set.
IsInSingleClass(rows) ==
    LET target == Column(rows, ClassIndex) IN
    IF Len(target) > 0 /\ \A i \in 1..Len(target) : target[i] = target[1]
    THEN <<TRUE, target[1]>> ELSE <<FALSE, "">>

\* Reader.Read / Reader.RandomPickRows: a fresh reader over rows, majority
\* class counted, no column flagged.
NewReader(rows) ==
    [Rows |-> rows, Ids |-> [i \in 1..Len(rows) |-> i],
     Flag |-> [x \in 1..NColumn |-> 0],
     MajorityClass |-> CountMajorMinorClass(rows)]

\* Dataset.SortColumnsByIndex: every column reordered by the sorted index
\* (nothing to do when there is none, the discrete case).
SortColumnsByIndex(D, sortedIdx) ==
    IF sortedIdx = <<>> THEN D
    ELSE [D EXCEPT
            !.Rows = [i \in 1..Len(sortedIdx) |->
                        [x \in 1..NColumn |-> Column(D.Rows, x)[sortedIdx[i]]]],
            !.Ids = ApplyIndex(D.Ids, sortedIdx)]

\* Does the row go to the left split?  Continuous: value below the
\* threshold; discrete: value is one of the given nominal values.
GoesLeft(row, colidx, isContinu, splitNum, splitSet) ==
    IF isContinu THEN 2 * row[colidx] < splitNum
    ELSE row[colidx] \in Range(splitSet)

SubReader(D, keep) ==
    LET pos == SelectSeq([i \in 1..Len(D.Rows) |-> i], LAMBDA i : i \in keep)
        rows == ApplyIndex(D.Rows, pos)
    IN  [Rows |-> rows, Ids |-> ApplyIndex(D.Ids, pos), Flag |-> D.Flag,
         MajorityClass |-> CountMajorMinorClass(rows)]

\* Reader.SplitRowsByValue: the rows are divided over two new readers, each
\* copies the configuration of its source and recounts its majority class.
SplitRowsByValueMutant(D, colidx, isContinu, splitNum, splitSet) ==
    LET left == {i \in 1..Len(D.Rows) :
                    GoesLeft(D.Rows[i], colidx, isContinu, splitNum, splitSet)}
        right == {i \in 1..Len(D.Rows) :
                    IF isContinu THEN 2 * D.Rows[i][colidx] > splitNum
                    ELSE i \notin left}
    IN  <<SubReader(D, left), SubReader(D, right)>>

SplitRowsByValueLeMutant(D, colidx, isContinu, splitNum, splitSet) ==
    LET left == {i \in 1..Len(D.Rows) :
                    IF isContinu THEN 2 * D.Rows[i][colidx] <= splitNum
                    ELSE D.Rows[i][colidx] \in Range(splitSet)}
    IN  <<SubReader(D, left), SubReader(D, (1..Len(D.Rows)) \ left)>>

SplitRowsByValue(D, colidx, isContinu, splitNum, splitSet) ==
    LET left == {i \in 1..Len(D.Rows) :
                    GoesLeft(D.Rows[i], colidx, isContinu, splitNum, splitSet)}
    IN  <<SubReader(D, left), SubReader(D, (1..Len(D.Rows)) \ left)>>

\* ------------------------------------------------------------------ cart
HasFlag(f, bit) == (f \div bit) % 2 = 1

\* The sets of columns SelectRandomFeature can pick: none to pick ("all
\* features") when NRandomFeature is not positive or not below the number
\* of features, otherwise NRandomFeature distinct columns that are neither
\* the class nor flagged as parent.
PickSetsMutant(D, nRandomFeature) ==
    IF nRandomFeature <= 0 \/ nRandomFeature >= NColumn - 1 THEN {{}}
    ELSE LET eligible == {x \in 1..NColumn : x # ClassIndex}
         IN  {S \in SUBSET eligible : Cardinality(S) = nRandomFeature}

PickSets(D, nRandomFeature) ==
    IF nRandomFeature <= 0 \/ nRandomFeature >= NColumn - 1 THEN {{}}
    ELSE LET eligible == {x \in 1..NColumn :
                            x # ClassIndex /\ ~HasFlag(D.Flag[x], ColFlagParent)}
         IN  {S \in SUBSET eligible : Cardinality(S) = nRandomFeature}

\* Input.SelectRandomFeature for one outcome of the random picks.
SelectRandomFeature(D, nRandomFeature, picked) ==
    IF nRandomFeature <= 0 \/ nRandomFeature >= NColumn - 1 THEN D
    ELSE [D EXCEPT !.Flag = [x \in 1..NColumn |->
            IF HasFlag(D.Flag[x], ColFlagParent) THEN D.Flag[x]
            ELSE IF x \in picked THEN 0 ELSE ColFlagSkip]]

\* Input.computeGiniGain: one Gini record per column; the class column keeps
\* the zero record, flagged columns are marked Skip.
computeGiniGain(D) ==
    LET targetV == Column(D.Rows, ClassIndex) IN
    [x \in 1..NColumn |->
        IF x = ClassIndex THEN GiniZero
        ELSE IF HasFlag(D.Flag[x], ColFlagParent) \/ HasFlag(D.Flag[x], ColFlagSkip)
             THEN [GiniZero EXCEPT !.Skip = TRUE]
        ELSE IF x = ColReal THEN ComputeContinu(Column(D.Rows, x), targetV)
        ELSE ComputeDiscrete(Column(D.Rows, x), NominalVS, targetV)]

AllGains(gains) == Concat([x \in 1..Len(gains) |-> gains[x].Gain])

\* A tree is the sequence of its nodes, root first; Left/Right/Parent are
\* positions in it (0: none).  Ids, Data, Gain, Flag and Ginis record what
\* the builder saw at the node: the rows it was given, the gains it computed,
\* the flags of the columns when it computed them and the Gini record of
\* every column.
LeafNode(D, class, size, gains) ==
    [IsLeaf |-> TRUE, Class |-> class, Size |-> size,
     IsContinu |-> FALSE, SplitAttrIdx |-> 0, SplitNum |-> 0, SplitSet |-> <<>>,
     Left |-> 0, Right |-> 0, Parent |-> 0,
     Ids |-> D.Ids, Data |-> D.Rows, Gain |-> AllGains(gains),
     Flag |-> D.Flag, Ginis |-> gains]

ShiftNode(n, k) ==
    [n EXCEPT !.Left = IF @ = 0 THEN 0 ELSE @ + k,
              !.Right = IF @ = 0 THEN 0 ELSE @ + k,
              !.Parent = IF @ = 0 THEN 1 ELSE @ + k]

ShiftTree(tree, k) == [i \in 1..Len(tree) |-> ShiftNode(tree[i], k)]

\* The flags both splits get after a split on MaxGainIdx.
MarkParent(D, MaxGainIdx) ==
    [D EXCEPT !.Flag = [x \in 1..NColumn |->
                          IF x = MaxGainIdx THEN ColFlagParent ELSE 0]]

\* The split value of the attribute with the maximum gain: the threshold
\* of a continuous attribute, the left subset of a discrete one.
SplitNumOf(MaxGain) ==
    IF MaxGain.IsContinu THEN MaxGain.ContinuPart[MaxGain.MaxPartGain] ELSE 0

SplitSetOf(MaxGain) ==
    IF MaxGain.IsContinu THEN <<>>
    ELSE MaxGain.DiscretePart[MaxGain.MaxPartGain][1]

\* The internal node made for D, followed by the nodes of its two subtrees.
NodeWith(D, gains, MaxGainIdx, nodeLeft, nodeRight) ==
    << [IsLeaf |-> FALSE, Class |-> "", Size |-> Len(D.Rows),
        IsContinu |-> gains[MaxGainIdx].IsContinu,
        SplitAttrIdx |-> MaxGainIdx,
        SplitNum |-> SplitNumOf(gains[MaxGainIdx]),
        SplitSet |-> SplitSetOf(gains[MaxGainIdx]),
        Left |-> 2, Right |-> 2 + Len(nodeLeft), Parent |-> 0,
        Ids |-> D.Ids, Data |-> D.Rows, Gain |-> AllGains(gains),
        Flag |-> D.Flag, Ginis |-> gains] >>
    \o ShiftTree(nodeLeft, 1)
    \o ShiftTree(nodeRight, 1 + Len(nodeLeft))

\* Input.splitTreeByGain: the set of trees the builder can return for D, one
\* per outcome of the random feature picks.  splitSelected is its part after
\* the features are selected, splitByGains after the gains are computed,
\* splitRows after the rows are split.
RECURSIVE splitTreeByGain(_, _)
RECURSIVE splitSelected(_, _, _)
RECURSIVE splitByGains(_, _, _, _, _)
RECURSIVE splitRows(_, _, _, _, _)
splitRows(D, gains, MaxGainIdx, split, nRandomFeature) ==
    { NodeWith(D, gains, MaxGainIdx, nodeLeft, nodeRight) :
        nodeLeft \in splitTreeByGain(MarkParent(split[1], MaxGainIdx),
                                     nRandomFeature),
        nodeRight \in splitTreeByGain(MarkParent(split[2], MaxGainIdx),
                                      nRandomFeature) }

splitByGains(D, Dsel, gains, MaxGainIdx, nRandomFeature) ==
    IF gains[MaxGainIdx].MaxGainValue = Zero
    THEN {<<LeafNode(D, D.MajorityClass, 0, gains)>>}
    ELSE UNION { splitRows(D, gains, MaxGainIdx, split, nRandomFeature) :
            split \in {SplitRowsByValue(
                SortColumnsByIndex(Dsel, gains[MaxGainIdx].SortedIndex),
                MaxGainIdx, gains[MaxGainIdx].IsContinu,
                SplitNumOf(gains[MaxGainIdx]), SplitSetOf(gains[MaxGainIdx]))} }

splitSelected(D, Dsel, nRandomFeature) ==
    UNION { UNION { splitByGains(D, Dsel, gains, MaxGainIdx, nRandomFeature) :
                    MaxGainIdx \in {FindMaxGain(gains)} } :
            gains \in {computeGiniGain(Dsel)} }

splitTreeByGain(Din, nRandomFeature) ==
    UNION {
        IF Len(D.Rows) <= 0 THEN {<<LeafNode(D, D.MajorityClass, 0, <<>>)>>}
        ELSE IF IsInSingleClass(D.Rows)[1]
        THEN {<<LeafNode(D, IsInSingleClass(D.Rows)[2], Len(D.Rows), <<>>)>>}
        ELSE UNION { UNION { splitSelected(Dsel, Dsel, nRandomFeature) :
                        Dsel \in {SelectRandomFeature(D, nRandomFeature, picked)} } :
                     picked \in PickSets(D, nRandomFeature) }
        : D \in {Din} }

\* Input.Classify: walk from the root to a leaf and return its class.
RECURSIVE ClassifyFromMutant(_, _, _)
ClassifyFromMutant(tree, i, row) ==
    LET nodev == tree[i] IN
    IF nodev.IsLeaf THEN nodev.Class
    ELSE IF (IF nodev.IsContinu
             THEN 2 * row[nodev.SplitAttrIdx] <= nodev.SplitNum
             ELSE row[nodev.SplitAttrIdx] \in Range(nodev.SplitSet))
         THEN ClassifyFromMutant(tree, nodev.Left, row)
         ELSE ClassifyFromMutant(tree, nodev.Right, row)

RECURSIVE ClassifyFrom(_, _, _)
ClassifyFrom(tree, i, row) ==
    LET nodev == tree[i] IN
    IF nodev.IsLeaf THEN nodev.Class
    ELSE IF GoesLeft(row, nodev.SplitAttrIdx, nodev.IsContinu,
                     nodev.SplitNum, nodev.SplitSet)
         THEN ClassifyFrom(tree, nodev.Left, row)
         ELSE ClassifyFrom(tree, nodev.Right, row)

Classify(tree, row) == ClassifyFrom(tree, 1, row)

\* ------------------------------------------------------ confusion matrix
\* ConfusionMatrix.countTargetPrediction
countTargetPrediction(target, predict, targets, predictions) ==
    Cardinality({x \in 1..Len(targets) :
                    /\ x <= Len(predictions)
                    /\ targets[x] = target
                    /\ predictions[x] = predict})

\* ConfusionMatrix.computeClassError: walks the rows of the matrix; tp is
\* set from the diagonal cell of each row, fp keeps adding up over the rows.
RECURSIVE computeClassErrorFrom(_, _, _, _)
computeClassErrorFrom(cells, x, fp, acc) ==
    IF x > Len(cells) THEN acc
    ELSE LET tp == cells[x][x]
             fp2 == fp + SumSeq([y \in 1..Len(cells[x]) |->
                                   IF y = x THEN 0 ELSE cells[x][y]])
         IN  computeClassErrorFrom(cells, x + 1, fp2,
                [nSamples |-> acc.nSamples + tp + fp2,
                 nTrue |-> acc.nTrue + tp,
                 nFalse |-> acc.nFalse + fp2])

\* NewConfusionMatrix / Runtime.ComputeCM
ComputeCM(vs, actuals, predicts) ==
    LET cells == [x \in 1..Len(vs) |-> [y \in 1..Len(vs) |->
                    countTargetPrediction(vs[x], vs[y], actuals, predicts)]]
        err == computeClassErrorFrom(cells, 1, 0,
                    [nSamples |-> 0, nTrue |-> 0, nFalse |-> 0])
    IN  [cells |-> cells, nSamples |-> err.nSamples,
         nTrue |-> err.nTrue, nFalse |-> err.nFalse]

\* ConfusionMatrix.GetFalseRate
GetFalseRate(cm) == Rat(cm.nFalse, cm.nTrue + cm.nFalse)

\* ---------------------------------------------------------------- forest
DefNumTree == 100
DefPercentBoot == 66
PercentBootChoices == {50, 100}

\* Rows the samples given to Build are made of.
ForestRowSpace ==
    {<<v, IF v = 0 THEN NominalVS[1] ELSE NominalVS[2], c>> :
        v \in 0..MaxForestVal, c \in Range(ClassVS)}

SeqsUpTo(S, n) == UNION {[1..k -> S] : k \in 0..n}

VARIABLES
    samples,        \* rows of the dataset given to Build
    samplesIsNil,   \* Build is called with a nil dataset
    NTree, NRandomFeature, PercentBoot, RunOOB,   \* rf.Runtime configuration
    nSubsample,     \* rf.Runtime.nSubsample
    trees,          \* rf.Runtime.trees
    bagIndices,     \* rf.Runtime.bagIndices
    cmatrices,      \* classifier.Runtime.cmatrices
    stats,          \* classifier.Runtime.stats
    statTotal,      \* classifier.Runtime.statTotal
    statWriter,     \* classifier.Runtime.statWriter: "nil" or "open"
    statsFile,      \* what happened to the statistics file, in order
    pc,             \* position of Build: "new", "grow", "done"
    t,              \* loop variable of Build
    buildErr,       \* the error Build returned ("nil": none)
    growErrs,       \* the errors the GrowTree calls returned, in order
    nFail,          \* GrowTree calls that returned an error so far
    classifyOut,    \* what the last ClassifySet call saw and returned
    cmActuals,      \* the actual classes given to Runtime.ComputeCM
    cmPredicts,     \* the predicted classes given to Runtime.ComputeCM
    samplesNColumn, \* samples.GetNColumn() as Initialize reads it
    cartD,          \* rows of the dataset given to the tree builder
    cartN,          \* cart.Input.NRandomFeature
    cartTree,       \* cart.Input.Tree
    cartPc,         \* "new", "built" (Build returned), "split", "classified"
    inputSplit,     \* what Input.SplitByAttrValue was given and returned
    cartClassified, \* the class Input.ClassifySet has set on every row
    giniA,          \* A of ComputeContinu / ComputeDiscrete: the attribute values
    giniT,          \* T: the target values of the samples
    orgseed,        \* the set to partition; discval of ComputeDiscrete
    gini,           \* the Gini object after ComputeContinu / ComputeDiscrete
    rset            \* k and what PartitioningTableStrings returned for it

cvars == <<cartD, cartN, cartTree, cartPc, inputSplit, cartClassified>>

fvars == <<samples, samplesIsNil, NTree, NRandomFeature, PercentBoot, RunOOB,
           nSubsample, trees, bagIndices, cmatrices, stats, statTotal,
           statWriter, statsFile, pc, t, buildErr, growErrs, nFail,
           classifyOut, cmActuals, cmPredicts, samplesNColumn>>

gvars == <<giniA, giniT, orgseed, gini, rset>>

vars == <<fvars, cvars, gvars>>

StatZero ==
    [ID |-> 0, TP |-> 0, FP |-> 0, TN |-> 0, FN |-> 0,
     OobError |-> Zero, OobErrorMean |-> Zero,
     TPRate |-> Zero, FPRate |-> Zero, TNRate |-> Zero, Precision |-> Zero,
     FMeasure |-> Zero, Accuracy |-> Zero]

\* Runtime.Votes: the trees that vote for a sample, in forest order.  A tree
\* is left out when the sample index is given (not negative) and is one of
\* the indices the tree was bagged with.
VotersMutant(forestBags, sampleIdx) ==
    SelectSeq([x \in 1..Len(forestBags) |-> x],
              LAMBDA x : ~(sampleIdx > 0 /\ sampleIdx \in Range(forestBags[x])))

Voters(forestBags, sampleIdx) ==
    SelectSeq([x \in 1..Len(forestBags) |-> x],
              LAMBDA x : ~(sampleIdx >= 0 /\ sampleIdx \in Range(forestBags[x])))

Votes(forestTrees, forestBags, sample, sampleIdx) ==
    LET voters == Voters(forestBags, sampleIdx)
    IN  [k \in 1..Len(voters) |-> Classify(forestTrees[voters[k]], sample)]

\* tekstus.WordsProbabilitiesOf followed by numerus.Floats64FindMax: the
\* first class of the value space with the most votes.
MajorVote(votes, vs) ==
    vs[IntFindMax([k \in 1..Len(vs) |-> Count(votes, vs[k])])]

\* Runtime.ClassifySet(samples, sampleIds): predictions, confusion matrix,
\* and per row the trees that voted.
ClassifySet(forestTrees, forestBags, rows, sampleIds) ==
    LET SampleIdx(x) == IF Len(sampleIds) > 0 THEN sampleIds[x] ELSE -1
        predicts == [x \in 1..Len(rows) |->
                       MajorVote(Votes(forestTrees, forestBags, rows[x],
                                       SampleIdx(x)), ClassVS)]
    IN  [sampleIds |-> sampleIds,
         voters |-> [x \in 1..Len(rows) |-> Voters(forestBags, SampleIdx(x))],
         predicts |-> predicts,
         cm |-> ComputeCM(ClassVS, Column(rows, ClassIndex), predicts)]

\* CM.TP, CM.FN, CM.FP, CM.TN: the first class of the value space is the
\* positive one; cells[x][y] counts the samples of class x predicted as y.
TP(cm) == cm.cells[1][1]

FN(cm) == SumSeq([y \in 1..Len(cm.cells[1]) |->
                    IF y = 1 THEN 0 ELSE cm.cells[1][y]])

FP(cm) == SumSeq([x \in 1..Len(cm.cells) |->
                    IF x = 1 THEN 0 ELSE cm.cells[x][1]])

TN(cm) == SumSeq([x \in 1..Len(cm.cells) |->
                    IF x = 1 THEN 0
                    ELSE SumSeq([y \in 1..Len(cm.cells[x]) |->
                                   IF y = 1 THEN 0 ELSE cm.cells[x][y]])])

\* A rate n / d of Runtime.ComputeStatFromCM and Runtime.ComputeStatTotal:
\* 0 when d is 0.
RateOf(n, d) == IF d = 0 THEN Zero ELSE Rat(n, d)

\* The F-measure of both: the sum 1/Precision + 1/TPRate, 0 when the
\* sum is 0 and 2 over the sum otherwise.
FMeasureOf(precision, tprate) ==
    LET sumInv == FAdd(FInv(precision), FInv(tprate))
    IN  IF sumInv = Zero THEN Zero ELSE FDivInt(2, sumInv)

\* Runtime.ComputeStatFromCM: OOB error of the matrix, the running mean
\* taken from the total at the time of the call, the four counts of the
\* matrix and the rates derived from them.
ComputeStatFromCMMutant(stat, cm, total, nstats) ==
    LET tp == TP(cm)
        fp == FP(cm)
        tn == TN(cm)
        fn == FN(cm)
        tprate == Rat(tp, tp + fn)
        precision == Rat(tp, tp + fp)
    IN  [stat EXCEPT !.OobError = GetFalseRate(cm),
                     !.OobErrorMean = RDivInt(total.OobError, nstats + 1),
                     !.TP = tp, !.FP = fp, !.TN = tn, !.FN = fn,
                     !.TPRate = tprate,
                     !.FPRate = Rat(fp, fp + tn),
                     !.TNRate = Rat(tn, fp + tn),
                     !.Precision = precision,
                     !.FMeasure = FDivInt(2, FAdd(FInv(precision),
                                                  FInv(tprate))),
                     !.Accuracy = Rat(tp + tn, tp + tn + fp + fn)]

ComputeStatFromCM(stat, cm, total, nstats) ==
    LET tp == TP(cm)
        fp == FP(cm)
        tn == TN(cm)
        fn == FN(cm)
        tprate == RateOf(tp, tp + fn)
        precision == RateOf(tp, tp + fp)
    IN  [stat EXCEPT !.OobError = GetFalseRate(cm),
                     !.OobErrorMean = RDivInt(total.OobError, nstats + 1),
                     !.TP = tp, !.FP = fp, !.TN = tn, !.FN = fn,
                     !.TPRate = tprate,
                     !.FPRate = RateOf(fp, fp + tn),
                     !.TNRate = RateOf(tn, fp + tn),
                     !.Precision = precision,
                     !.FMeasure = FMeasureOf(precision, tprate),
                     !.Accuracy = RateOf(tp + tn, tp + tn + fp + fn)]

\* Runtime.ComputeStatTotal: the OOB errors and the four counts are added
\* up, and the rates are taken from the counts added up.
ComputeStatTotalMutant(total, stat, nstat) ==
    IF nstat = 0 THEN total
    ELSE LET sum == RAdd(total.OobError, stat.OobError)
             Mean(old, new) == RDivInt(RAdd(RMul(old, <<nstat - 1, 1>>), new),
                                       nstat)
         IN  [total EXCEPT !.OobError = sum,
                           !.OobErrorMean = RDivInt(sum, nstat),
                           !.TP = total.TP + stat.TP,
                           !.FP = total.FP + stat.FP,
                           !.TN = total.TN + stat.TN,
                           !.FN = total.FN + stat.FN,
                           !.TPRate = Mean(total.TPRate, stat.TPRate),
                           !.FPRate = Mean(total.FPRate, stat.FPRate),
                           !.TNRate = Mean(total.TNRate, stat.TNRate),
                           !.Precision = Mean(total.Precision, stat.Precision),
                           !.FMeasure = Mean(total.FMeasure, stat.FMeasure),
                           !.Accuracy = Mean(total.Accuracy, stat.Accuracy)]

ComputeStatTotal(total, stat, nstat) ==
    IF nstat = 0 THEN total
    ELSE LET sum == RAdd(total.OobError, stat.OobError)
             tp == total.TP + stat.TP
             fp == total.FP + stat.FP
             tn == total.TN + stat.TN
             fn == total.FN + stat.FN
             tprate == RateOf(tp, tp + fn)
             precision == RateOf(tp, tp + fp)
         IN  [total EXCEPT !.OobError = sum,
                           !.OobErrorMean = RDivInt(sum, nstat),
                           !.TP = tp, !.FP = fp, !.TN = tn, !.FN = fn,
                           !.TPRate = tprate,
                           !.FPRate = RateOf(fp, fp + tn),
                           !.TNRate = RateOf(tn, fp + tn),
                           !.Precision = precision,
                           !.FMeasure = FMeasureOf(precision, tprate),
                           !.Accuracy = RateOf(tp + tn, tp + tn + fp + fn)]

\* No Gini object and no set is in use.
GiniIdle ==
    /\ giniA = <<>>
    /\ giniT = <<>>
    /\ orgseed = <<>>
    /\ gini = <<>>
    /\ rset = <<>>

\* No tree builder is in use.
CartIdle ==
    /\ cartD = <<>>
    /\ cartN = 0
    /\ cartTree = <<>>
    /\ cartPc = "new"
    /\ inputSplit = <<>>
    /\ cartClassified = <<>>

Init ==
    /\ CartIdle
    /\ GiniIdle
    /\ samplesIsNil \in BOOLEAN
    /\ samples \in SeqsUpTo(ForestRowSpace, MaxForestRows)
    /\ samplesIsNil => samples = <<>>
    /\ NTree \in 1..MaxTree
    /\ NRandomFeature \in {0, NColumn - 1}
    /\ PercentBoot \in PercentBootChoices
    /\ RunOOB \in BOOLEAN
    /\ nSubsample = 0
    /\ trees = <<>>
    /\ bagIndices = <<>>
    /\ cmatrices = <<>>
    /\ stats = <<>>
    /\ statTotal = StatZero
    /\ statWriter = "nil"
    /\ statsFile = <<>>
    /\ pc = "new"
    /\ t = 0
    /\ buildErr = "nil"
    /\ growErrs = <<>>
    /\ nFail = 0
    /\ classifyOut = <<>>
    /\ cmActuals = <<>>
    /\ cmPredicts = <<>>
    /\ samplesNColumn = NColumn

\* Isqrt(n): int(math.Sqrt(float64(n)))
Isqrt(n) == CHOOSE r \in 0..n : r * r <= n /\ (r + 1) * (r + 1) > n

\* Runtime.Initialize: the rows of a bag,
\* int(float32(nrow) * (float32(PercentBoot) / 100.0)).
NSubsampleMutant(nrow, percentBoot) == (nrow * DefPercentBoot) \div 100

NSubsample(nrow, percentBoot) == (nrow * percentBoot) \div 100

\* Build up to the loop: nil check, rf Initialize (defaults, nSubsample) and
\* classifier Initialize (the statistics file is opened).
BuildStart ==
    /\ pc = "new"
    /\ IF samplesIsNil
       THEN /\ pc' = "done"
            /\ buildErr' = "ErrNoInput"
            /\ UNCHANGED <<NTree, PercentBoot, NRandomFeature, nSubsample,
                           statWriter, statsFile>>
       ELSE \E openFails \in BOOLEAN :
            /\ NTree' = IF NTree <= 0 THEN DefNumTree ELSE NTree
            /\ PercentBoot' = IF PercentBoot <= 0 THEN DefPercentBoot
                              ELSE PercentBoot
            /\ NRandomFeature' = IF NRandomFeature <= 0
                                 THEN Isqrt(NColumn - 1) ELSE NRandomFeature
            /\ nSubsample' = NSubsample(Len(samples), PercentBoot')
            /\ statWriter' = "open"
            /\ statsFile' = Append(statsFile,
                               IF openFails THEN <<"openfail">> ELSE <<"open">>)
            /\ pc' = IF openFails THEN "done" ELSE "grow"
            /\ buildErr' = IF openFails THEN "open" ELSE "nil"
    /\ UNCHANGED <<cmActuals, cmPredicts, samplesNColumn,
                   samples, samplesIsNil, RunOOB, trees, bagIndices, cmatrices,
                   stats, statTotal, t, growErrs, nFail, classifyOut>>
    /\ UNCHANGED cvars
    /\ UNCHANGED gvars

OobIdx(bagIdx) ==
    SelectSeq([i \in 1..Len(samples) |-> i - 1],
              LAMBDA i : i \notin Range(bagIdx))

RowsAt(idx) == [k \in 1..Len(idx) |-> samples[idx[k] + 1]]

\* Runtime.AddBagIndex: the indices drawn for a tree are kept as drawn.
AddBagIndexMutant(bagIdx) == Append(bagIndices, OobIdx(bagIdx))

AddBagIndex(bagIdx) == Append(bagIndices, bagIdx)

\* Column.ClearValues on the class column of a test set.
ClearValues(rows) ==
    [i \in 1..Len(rows) |-> [rows[i] EXCEPT ![ClassIndex] = ""]]

\* Column.SetValues on the class column of a test set.
SetValues(rows, values) ==
    [i \in 1..Len(rows) |->
        IF i <= Len(values) THEN [rows[i] EXCEPT ![ClassIndex] = values[i]]
        ELSE rows[i]]

\* What a ClassifySet call leaves in the test set.  The current ClassifySet
\* reads the class values and keeps the votes in a list of its own; the
\* older one, like Input.CountOOBError, keeps the class values, clears the
\* class column, writes the vote of every row into it and sets the kept
\* values back at the end.
ClassifySetTargetsMutant(testset, predictions) ==
    SetValues(ClearValues(testset), predictions)

ClassifySetTargets(testset, predictions) ==
    LET targetValues == Column(testset, ClassIndex)
        voted == SetValues(ClearValues(testset), predictions)
    IN  SetValues(voted, targetValues)

\* The samples when the rows at the indices idx, which were handed out as
\* a test set, are the given ones.
PutRows(idx, rows) ==
    [i \in 1..Len(samples) |->
        IF \E k \in 1..Len(idx) : idx[k] = i - 1
        THEN rows[CHOOSE k \in 1..Len(idx) : idx[k] = i - 1]
        ELSE samples[i]]

\* The nodes of a tree as the forest keeps them: without the rows and gains
\* the builder saw at each node.
Nodes(tree) ==
    [i \in 1..Len(tree) |-> [tree[i] EXCEPT !.Ids = <<>>, !.Data = <<>>,
                                            !.Gain = <<>>, !.Flag = <<>>,
                                            !.Ginis = <<>>]]

\* What Build does with the error of a GrowTree call: next tree when there
\* is none, the same iteration again otherwise.
NextTMutant(e) == t + 1

NextT(e) == IF e = "nil" THEN t + 1 ELSE t

\* One GrowTree call of the loop of Build.  bagIdx is the outcome of
\* RandomPickRows, cartFails / writeFails the outcome of cart.New and of
\* writing the statistics row.
GrowTree ==
    /\ pc = "grow"
    /\ t < NTree
    /\ \E bagIdx \in [1..nSubsample -> 0..(Len(samples) - 1)],
          fails \in {"nil", "cart", "write"} :
       /\ fails # "nil" => nFail < MaxFail
       /\ fails = "write" => RunOOB
       /\ IF fails = "cart"
          THEN /\ growErrs' = Append(growErrs, "cart")
               /\ nFail' = nFail + 1
               /\ t' = NextT("cart")
               /\ UNCHANGED <<samples, trees, bagIndices, cmatrices, stats,
                              statTotal, statsFile>>
          ELSE \E cart \in splitTreeByGain(NewReader(RowsAt(bagIdx)),
                                           NRandomFeature) :
               LET oobIdx == OobIdx(bagIdx)
                   stat0 == [StatZero EXCEPT !.ID = Len(trees)]
                   trees1 == Append(trees, Nodes(cart))
                   bags1 == AddBagIndex(bagIdx)
                   out == ClassifySet(trees1, bags1, RowsAt(oobIdx), oobIdx)
                   nstats == Len(stats) + 1
                   stat == IF RunOOB
                           THEN ComputeStatFromCM(stat0, out.cm, statTotal,
                                                  nstats)
                           ELSE stat0
                   written == RunOOB /\ statWriter # "nil" /\ fails = "nil"
                   e == fails
               IN  /\ samples' = IF RunOOB
                                 THEN PutRows(oobIdx,
                                         ClassifySetTargets(RowsAt(oobIdx),
                                                            out.predicts))
                                 ELSE samples
                   /\ trees' = trees1
                   /\ bagIndices' = bags1
                   /\ cmatrices' = IF RunOOB THEN Append(cmatrices, out.cm)
                                   ELSE cmatrices
                   /\ stats' = Append(stats, stat)
                   /\ statTotal' = IF RunOOB
                                   THEN ComputeStatTotal(statTotal, stat, nstats)
                                   ELSE statTotal
                   /\ statsFile' = IF written
                                   THEN Append(statsFile, <<"row", stat.ID>>)
                                   ELSE statsFile
                   /\ growErrs' = Append(growErrs, e)
                   /\ nFail' = IF e = "nil" THEN nFail ELSE nFail + 1
                   /\ t' = NextT(e)
    /\ classifyOut' = <<>>
    /\ UNCHANGED <<cmActuals, cmPredicts, samplesNColumn,
                   samplesIsNil, NTree, NRandomFeature, PercentBoot,
                   RunOOB, nSubsample, statWriter, pc, buildErr>>
    /\ UNCHANGED cvars
    /\ UNCHANGED gvars

\* Runtime.Finalize at the end of Build: the totals row is written and the
\* file closed; a failed write returns before the close.
Finalize ==
    /\ pc = "grow"
    /\ t >= NTree
    /\ \E writeFails \in BOOLEAN, closeFails \in BOOLEAN :
       /\ writeFails => ~closeFails
       /\ statTotal' = [statTotal EXCEPT !.ID = Len(stats)]
       /\ IF writeFails
          THEN /\ buildErr' = "write"
               /\ UNCHANGED <<statWriter, statsFile>>
          ELSE /\ statsFile' = statsFile \o
                     (IF statWriter # "nil"
                      THEN << <<"total", Len(stats)>>, <<"close">> >>
                      ELSE <<>>)
               /\ statWriter' = "nil"
               /\ buildErr' = IF closeFails THEN "close" ELSE "nil"
    /\ pc' = "done"
    /\ UNCHANGED <<cmActuals, cmPredicts, samplesNColumn,
                   samples, samplesIsNil, NTree, NRandomFeature, PercentBoot,
                   RunOOB, nSubsample, trees, bagIndices, cmatrices, stats,
                   t, growErrs, nFail, classifyOut>>
    /\ UNCHANGED cvars
    /\ UNCHANGED gvars

\* Runtime.ClassifySet called by the user of the forest on all the samples
\* with their row indices.
ClassifySamples ==
    /\ pc \in {"grow", "done"}
    /\ trees # <<>>
    /\ classifyOut = <<>>
    /\ classifyOut' = ClassifySet(trees, bagIndices, samples,
                                  [i \in 1..Len(samples) |-> i - 1])
    /\ samples' = ClassifySetTargets(samples, classifyOut'.predicts)
    /\ UNCHANGED <<cmActuals, cmPredicts, samplesNColumn,
                   samplesIsNil, NTree, NRandomFeature, PercentBoot,
                   RunOOB, nSubsample, trees, bagIndices, cmatrices, stats,
                   statTotal, statWriter, statsFile, pc, t, buildErr,
                   growErrs, nFail>>
    /\ UNCHANGED cvars
    /\ UNCHANGED gvars

Next == BuildStart \/ GrowTree \/ Finalize \/ ClassifySamples

Spec == Init /\ [][Next]_vars


\* ------------------------------------------------------- dataset.Input
\* The older dataset keeps one slice of values per attribute.  InputOf gives
\* the attributes of the rows, followed by one more continuous attribute
\* holding the number of each row.
InputOf(rows) ==
    [c \in 1..(NColumn + 1) |->
        IF c <= NColumn THEN Column(rows, c) ELSE [i \in 1..Len(rows) |-> i]]

\* Attr.Split(start, end): values [start:end] go to the split and are taken
\* out of the attribute.  Returns <<split, remainder>>.
AttrSplit(values, start, end) ==
    LET e == IF end > Len(values) THEN Len(values) ELSE end
    IN  <<SubSeq(values, start + 1, e),
          SubSeq(values, 1, start) \o SubSeq(values, e + 1, Len(values))>>

\* Input.Split(start, end)
InputSplit(attrs, size, start, end) ==
    LET e == IF end > size THEN size ELSE end
    IN  [split |-> [c \in 1..Len(attrs) |-> AttrSplit(attrs[c], start, e)[1]],
         rest |-> [c \in 1..Len(attrs) |-> AttrSplit(attrs[c], start, e)[2]]]

\* Input.SplitAttrContinu: the rows before the first one whose value is
\* greater than attrV (attrV2 is twice attrV).
SplitAttrContinu(attrs, attrIdx, attrV2) ==
    LET col == attrs[attrIdx]
        greater == {i \in 1..Len(col) : 2 * col[i] > attrV2}
        splitIdx == IF greater = {} THEN Len(col)
                    ELSE (CHOOSE i \in greater : \A j \in greater : i <= j) - 1
    IN  InputSplit(attrs, Len(col), 0, splitIdx)

\* The second loop of Input.SplitAttrDiscrete for one attribute: k is the
\* next position to look at, left and split what was copied so far.
RECURSIVE SplitValues(_, _, _, _, _)
SplitValues(values, splitIdx, k, left, split) ==
    IF splitIdx = <<>>
    THEN <<split, left \o SubSeq(values, k, Len(values))>>
    ELSE LET j == Head(splitIdx)
         IN  SplitValues(values, Tail(splitIdx), j + 1,
                         left \o SubSeq(values, k, j - 1),
                         Append(split, values[j]))

\* Input.SplitAttrDiscrete: the rows whose value of attrIdx is in attrD.
SplitAttrDiscrete(attrs, attrIdx, attrD) ==
    LET col == attrs[attrIdx]
        splitIdx == Concat([i \in 1..Len(col) |->
                        [y \in 1..Count(attrD, col[i]) |-> i]])
    IN  [split |-> [c \in 1..Len(attrs) |->
                      SplitValues(attrs[c], splitIdx, 1, <<>>, <<>>)[1]],
         rest |-> [c \in 1..Len(attrs) |->
                      SplitValues(attrs[c], splitIdx, 1, <<>>, <<>>)[2]]]

\* ------------------------------------------------------ the tree builder
\* Datasets the tree builder is given.
RowSpace == (0..MaxVal) \X Range(NominalVS) \X Range(ClassVS)

\* No forest is in use.
ForestIdle ==
    /\ samples = <<>>
    /\ samplesIsNil = FALSE
    /\ NTree = 1
    /\ NRandomFeature = 0
    /\ PercentBoot = DefPercentBoot
    /\ RunOOB = FALSE
    /\ nSubsample = 0
    /\ trees = <<>>
    /\ bagIndices = <<>>
    /\ cmatrices = <<>>
    /\ stats = <<>>
    /\ statTotal = StatZero
    /\ statWriter = "nil"
    /\ statsFile = <<>>
    /\ pc = "new"
    /\ t = 0
    /\ buildErr = "nil"
    /\ growErrs = <<>>
    /\ nFail = 0
    /\ classifyOut = <<>>
    /\ cmActuals = <<>>
    /\ cmPredicts = <<>>
    /\ samplesNColumn = NColumn

InitCart ==
    /\ ForestIdle
    /\ GiniIdle
    /\ cartD \in SeqsUpTo(RowSpace, MaxRows)
    /\ cartN \in 0..(NColumn - 1)
    /\ cartTree = <<>>
    /\ cartPc = "new"
    /\ inputSplit = <<>>
    /\ cartClassified = <<>>

\* cart.New followed by Input.Build on the dataset as it was read.
BuildTree ==
    /\ cartPc = "new"
    /\ cartTree' \in splitTreeByGain(NewReader(cartD), cartN)
    /\ cartPc' = "built"
    /\ UNCHANGED <<cartD, cartN, inputSplit, cartClassified>>
    /\ UNCHANGED fvars
    /\ UNCHANGED gvars

\* Input.ClassifySet on a dataset that holds every row of the row space:
\* the class attribute of each row is set to what Classify returns.
ClassifyRows ==
    /\ cartPc = "built"
    /\ cartClassified' = [row \in RowSpace |-> Classify(cartTree, row)]
    /\ cartPc' = "classified"
    /\ UNCHANGED <<cartD, cartN, cartTree, inputSplit>>
    /\ UNCHANGED fvars
    /\ UNCHANGED gvars

\* The values a dataset can be split by: a threshold (doubled) for the
\* continuous attribute, a list of nominal values for the discrete one.
SplitValuesOf(attrIdx) ==
    IF attrIdx = ColReal THEN 0..(2 * MaxVal)
    ELSE {<<NominalVS[1]>>, <<NominalVS[2]>>, NominalVS}

\* Input.SplitByAttrValue on the dataset, sorted by the attribute first as
\* the caller does for a continuous attribute.
SplitByAttrValue ==
    /\ cartPc = "new"
    /\ cartN = 0
    /\ \E attrIdx \in {ColReal, ColNominal} : \E attrV \in SplitValuesOf(attrIdx) :
         LET attrs == InputOf(cartD)
             sortedIdx == IndirectSort(attrs[attrIdx])
             sorted == [c \in 1..Len(attrs) |-> ApplyIndex(attrs[c], sortedIdx)]
             out == IF attrIdx = ColReal
                    THEN SplitAttrContinu(sorted, attrIdx, attrV)
                    ELSE SplitAttrDiscrete(attrs, attrIdx, attrV)
         IN  inputSplit' = [attrIdx |-> attrIdx, attrV |-> attrV,
                            split |-> out.split, rest |-> out.rest]
    /\ cartPc' = "split"
    /\ UNCHANGED <<cartD, cartN, cartTree, cartClassified>>
    /\ UNCHANGED fvars
    /\ UNCHANGED gvars

NextCart == BuildTree \/ ClassifyRows \/ SplitByAttrValue

SpecCart == InitCart /\ [][NextCart]_vars

\* ------------------------------------------------- the Gini gain on its own
\* The elements the sets to partition are made of.
SetElements == <<"a", "b", "c", "d", "e", "f", "g", "h">>

SeqsOfLen(S, lo, hi) == UNION {[1..k -> S] : k \in lo..hi}

\* The example of a continuous attribute: A = [1,2,3,4,5] with the labels
\* [P,P,N,N,N].
ExampleA == <<1, 2, 3, 4, 5>>
ExampleT == <<ClassVS[1], ClassVS[1], ClassVS[2], ClassVS[2], ClassVS[2]>>

\* What is given to the Gini computation or to the set partitioning: a
\* continuous attribute with its targets (in any order), a discrete
\* attribute over a value space with its targets, or a set of distinct
\* elements.
InitGini ==
    /\ ForestIdle
    /\ CartIdle
    /\ gini = <<>>
    /\ rset = <<>>
    /\ \/ /\ orgseed = <<>>
          /\ \/ /\ giniA \in SeqsOfLen(0..MaxGiniVal, 1, MaxGiniRows)
                /\ giniT \in [1..Len(giniA) -> Range(ClassVS)]
             \/ /\ giniA = ExampleA
                /\ giniT = ExampleT
       \/ /\ orgseed \in {SubSeq(SetElements, 1, n) : n \in 2..MaxSet}
          /\ giniA \in SeqsOfLen(Range(orgseed), 1, MaxDiscRows)
          /\ giniT \in [1..Len(giniA) -> Range(ClassVS)]
       \/ /\ orgseed \in {SubSeq(SetElements, 1, n) : n \in 1..MaxSet}
          /\ giniA = <<>>
          /\ giniT = <<>>

\* Gini.ComputeContinu(A, T, C) on a new Gini object.
GiniContinu ==
    /\ gini = <<>>
    /\ giniA # <<>>
    /\ orgseed = <<>>
    /\ gini' = ComputeContinu(giniA, giniT)
    /\ UNCHANGED <<giniA, giniT, orgseed, rset>>
    /\ UNCHANGED fvars
    /\ UNCHANGED cvars

\* Gini.ComputeDiscrete(A, discval, T, C) on a new Gini object.
GiniDiscrete ==
    /\ gini = <<>>
    /\ giniA # <<>>
    /\ orgseed # <<>>
    /\ gini' = ComputeDiscrete(giniA, orgseed, giniT)
    /\ UNCHANGED <<giniA, giniT, orgseed, rset>>
    /\ UNCHANGED fvars
    /\ UNCHANGED cvars

\* PartitioningTableStrings(orgseed, k) for a k of 1 .. n.
Partitioning ==
    /\ rset = <<>>
    /\ giniA = <<>>
    /\ \E k \in 1..Len(orgseed) :
          rset' = [k |-> k, table |-> PartitioningTableStrings(orgseed, k)]
    /\ UNCHANGED <<giniA, giniT, orgseed, gini>>
    /\ UNCHANGED fvars
    /\ UNCHANGED cvars

NextGini == GiniContinu \/ GiniDiscrete \/ Partitioning

SpecGini == InitGini /\ [][NextGini]_vars

\* ------------------------------------------- the statistics on their own
\* What a classifier.Runtime is given when a tree has classified its
\* out-of-bag rows: the actual and the predicted classes, of the same
\* length, possibly none.
InitStat ==
    /\ ForestIdle
    /\ CartIdle
    /\ GiniIdle

\* Runtime.ComputeCM followed by Runtime.AddCM.
AddCM ==
    /\ Len(cmatrices) = Len(stats)
    /\ Len(stats) < MaxStatTree
    /\ \E n \in 0..MaxStatRows :
       \E actuals \in [1..n -> Range(ClassVS)],
          predicts \in [1..n -> Range(ClassVS)] :
          /\ cmActuals' = actuals
          /\ cmPredicts' = predicts
          /\ cmatrices' = Append(cmatrices,
                                 ComputeCM(ClassVS, actuals, predicts))
    /\ UNCHANGED <<samples, samplesIsNil, NTree, NRandomFeature, PercentBoot,
                   RunOOB, nSubsample, trees, bagIndices, stats, statTotal,
                   statWriter, statsFile, pc, t, buildErr, growErrs, nFail,
                   classifyOut, samplesNColumn>>
    /\ UNCHANGED cvars
    /\ UNCHANGED gvars

\* Runtime.AddStat, Runtime.ComputeStatFromCM and Runtime.ComputeStatTotal
\* as GrowTree calls them on the matrix just added.
AddStat ==
    /\ Len(cmatrices) > Len(stats)
    /\ LET stat0 == [StatZero EXCEPT !.ID = Len(stats)]
           nstats == Len(stats) + 1
           stat == ComputeStatFromCM(stat0, cmatrices[Len(cmatrices)],
                                     statTotal, nstats)
       IN  /\ stats' = Append(stats, stat)
           /\ statTotal' = ComputeStatTotal(statTotal, stat, nstats)
    /\ UNCHANGED <<samples, samplesIsNil, NTree, NRandomFeature, PercentBoot,
                   RunOOB, nSubsample, trees, bagIndices, cmatrices,
                   statWriter, statsFile, pc, t, buildErr, growErrs, nFail,
                   classifyOut, cmActuals, cmPredicts, samplesNColumn>>
    /\ UNCHANGED cvars
    /\ UNCHANGED gvars

NextStat == AddCM \/ AddStat

SpecStat == InitStat /\ [][NextStat]_vars

\* ---------------------------------------------------- Initialize on its own
\* Samples of nrow rows and ncol columns, the last one the class.
SamplesOf(nrow, ncol) ==
    [i \in 1..nrow |-> [c \in 1..ncol |-> IF c = ncol THEN ClassVS[1] ELSE 0]]

\* A forest as its user may have filled it in, valid or not, and the samples
\* it is to be built from.
InitConfig ==
    /\ CartIdle
    /\ GiniIdle
    /\ samplesIsNil = FALSE
    /\ samplesNColumn \in 2..MaxColumn
    /\ \E nrow \in 0..MaxInitRows : samples = SamplesOf(nrow, samplesNColumn)
    /\ NTree \in -1..MaxTree
    /\ NRandomFeature \in -1..MaxColumn
    /\ PercentBoot \in {-1, 0} \cup PercentBootChoices
    /\ RunOOB = FALSE
    /\ nSubsample = 0
    /\ trees = <<>>
    /\ bagIndices = <<>>
    /\ cmatrices = <<>>
    /\ stats = <<>>
    /\ statTotal = StatZero
    /\ statWriter = "nil"
    /\ statsFile = <<>>
    /\ pc = "new"
    /\ t = 0
    /\ buildErr = "nil"
    /\ growErrs = <<>>
    /\ nFail = 0
    /\ classifyOut = <<>>
    /\ cmActuals = <<>>
    /\ cmPredicts = <<>>

\* rf Runtime.Initialize: defaults for what is not above 0, nSubsample, and
\* the classifier's Initialize, which opens the statistics file.
Initialize ==
    /\ pc = "new"
    /\ \E openFails \in BOOLEAN :
       /\ NTree' = IF NTree <= 0 THEN DefNumTree ELSE NTree
       /\ PercentBoot' = IF PercentBoot <= 0 THEN DefPercentBoot
                         ELSE PercentBoot
       /\ NRandomFeature' = IF NRandomFeature <= 0
                            THEN Isqrt(samplesNColumn - 1) ELSE NRandomFeature
       /\ nSubsample' = NSubsample(Len(samples), PercentBoot')
       /\ statWriter' = "open"
       /\ statsFile' = Append(statsFile,
                          IF openFails THEN <<"openfail">> ELSE <<"open">>)
       /\ pc' = IF openFails THEN "done" ELSE "grow"
       /\ buildErr' = IF openFails THEN "open" ELSE "nil"
    /\ UNCHANGED <<samples, samplesIsNil, RunOOB, trees, bagIndices, cmatrices,
                   stats, statTotal, t, growErrs, nFail, classifyOut,
                   cmActuals, cmPredicts, samplesNColumn>>
    /\ UNCHANGED cvars
    /\ UNCHANGED gvars

NextInit == Initialize

SpecInit == InitConfig /\ [][NextInit]_vars

\* ------------------------------------------------- properties of the forest
\* Build ran its loop and returned.
BuildReturned == pc = "done" /\ buildErr \notin {"ErrNoInput", "open"}

\* C1: after Build returns on a fresh forest, the forest holds exactly NTree
\* trees and exactly NTree bag-index lists, whatever GrowTree calls errored.
C1_ExactlyNTree ==
    BuildReturned => Len(trees) = NTree /\ Len(bagIndices) = NTree

\* C2: when the samples are classified with their row indices, tree x votes
\* for a sample exactly when the sample's index is not in bagIndices[x]; this
\* holds for every index, index 0 included.
C2_VoteIffNotInBag ==
    classifyOut # <<>> =>
        \A r \in 1..Len(samples) : \A x \in 1..Len(trees) :
            (x \in Range(classifyOut.voters[r]))
                <=> (classifyOut.sampleIds[r] \notin Range(bagIndices[x]))

\* Row index 0 was classified while one tree had it in its bag and another
\* tree had not.
C2_Witness ==
    /\ classifyOut # <<>>
    /\ Len(samples) > 0
    /\ classifyOut.sampleIds[1] = 0
    /\ \E x, y \in 1..Len(trees) :
          /\ 0 \in Range(bagIndices[x])
          /\ 0 \notin Range(bagIndices[y])
          /\ x \notin Range(classifyOut.voters[1])
          /\ y \in Range(classifyOut.voters[1])

\* C3: the OobErrorMean recorded for the t-th tree is the sum of the OOB
\* errors of trees 0..t divided by t + 1.
C3_OobErrorMean ==
    RunOOB =>
        \A k \in 1..Len(stats) :
            (\A j \in 1..k : ~IsNaN(stats[j].OobError)) =>
                stats[k].OobErrorMean =
                    RDivInt(RSum([j \in 1..k |-> stats[j].OobError]), k)

\* C4: when the CART builder fails inside GrowTree, Build runs the same
\* iteration again with a fresh bootstrap: the failed call adds no tree, the
\* loop does not advance, and the failure is never what Build returns.
C4_CartFailureRetried ==
    [][(Len(growErrs') > Len(growErrs) /\ growErrs'[Len(growErrs')] = "cart")
        => /\ t' = t
           /\ trees' = trees
           /\ bagIndices' = bagIndices
           /\ pc' = "grow"
           /\ t' < NTree
           /\ buildErr' = "nil"]_vars

\* A Build in which the builder failed once has returned with all its trees.
C4_Witness ==
    /\ pc = "done"
    /\ buildErr = "nil"
    /\ "cart" \in Range(growErrs)
    /\ Len(trees) = NTree

\* C5: a failed write of a statistics row is surfaced: GrowTree returns the
\* error and Build returns an error.
C5_WriteFailureSurfaced ==
    (pc = "done" /\ "write" \in Range(growErrs)) => buildErr # "nil"

\* The statistics file of a whole Build, as the claim has it.
ExpectedStatsFile ==
    << <<"open">> >> \o [i \in 1..NTree |-> <<"row", i - 1>>]
        \o << <<"total", NTree>>, <<"close">> >>

IsPrefix(s, r) == Len(s) <= Len(r) /\ s = SubSeq(r, 1, Len(s))

\* C6: in every run of Build (with the OOB evaluation on, which is what
\* writes the rows) the file is opened before the first tree and closed
\* after the last; in between one row per tree is written, ids 0 .. NTree-1
\* in order, then one totals row; nothing before the open or after the close.
C6_StatsFileOrder ==
    RunOOB =>
        /\ pc = "grow" => IsPrefix(statsFile, ExpectedStatsFile)
        /\ BuildReturned => statsFile = ExpectedStatsFile

\* ------------------------------------------- properties of the tree builder
Targets(rows) == Column(rows, ClassIndex)

\* The classes no other class outnumbers in rows.
MajoritiesOf(rows) ==
    {c \in Range(ClassVS) :
        \A d \in Range(ClassVS) : Count(Targets(rows), c) >= Count(Targets(rows), d)}

Mixed(rows) == Cardinality(Range(Targets(rows))) > 1

BestGainIsZero(nodev) == \A g \in 1..Len(nodev.Gain) : nodev.Gain[g] = Zero

Children(nodev) == {nodev.Left, nodev.Right}

\* C8: the leaf made for an empty child is labelled with the majority class
\* of the rows of its parent.
C8_EmptyChildLabel ==
    \A i \in 1..Len(cartTree) :
        ~cartTree[i].IsLeaf =>
            \A c \in Children(cartTree[i]) :
                cartTree[c].Data = <<>> =>
                    /\ cartTree[c].IsLeaf
                    /\ cartTree[c].Class \in MajoritiesOf(cartTree[i].Data)

\* C9: on a non-empty dataset of a single class every OOB error recorded
\* while the forest is built is 0 (the error over an empty OOB set, which is
\* 0/0, left aside).
C9_SingleClassOobError ==
    (samples # <<>> /\ ~Mixed(samples) /\ RunOOB) =>
        \A k \in 1..Len(stats) :
            stats[k].OobError = Zero \/ IsNaN(stats[k].OobError)

\* (C9, the builder alone) a non-empty dataset of a single class gives a
\* tree of one leaf with that class.
SingleClassSingleLeaf ==
    (cartPc = "built" /\ cartD # <<>> /\ ~Mixed(cartD)) =>
        /\ Len(cartTree) = 1
        /\ cartTree[1].IsLeaf
        /\ cartTree[1].Class = cartD[1][ClassIndex]

NoDuplicate(s) == Cardinality(Range(s)) = Len(s)

\* The rows of a node are the rows of the dataset its Ids name.
RowsIntact(nodev) ==
    /\ Len(nodev.Data) = Len(nodev.Ids)
    /\ \A k \in 1..Len(nodev.Ids) : nodev.Data[k] = cartD[nodev.Ids[k]]

IdColumn == NColumn + 1

\* The same for a split of the older dataset: attribute by attribute.
AttrsIntact(attrs) ==
    /\ \A c \in 1..NColumn : Len(attrs[c]) = Len(attrs[IdColumn])
    /\ \A k \in 1..Len(attrs[IdColumn]) : \A c \in 1..NColumn :
          attrs[c][k] = cartD[attrs[IdColumn][k]][c]

InputSplitReached ==
    /\ inputSplit # <<>>
    /\ inputSplit.attrIdx = ColNominal
    /\ Len(inputSplit.split[IdColumn]) > 0
    /\ Len(inputSplit.rest[IdColumn]) > 1

\* --------------------------------------------- properties of classification
\* The traversal as the claims state it: left when the split is continuous
\* and the value is below the threshold, or discrete and the value is in the
\* kept subset; right otherwise.
TurnsLeft(nodev, row) ==
    \/ nodev.IsContinu /\ 2 * row[nodev.SplitAttrIdx] < nodev.SplitNum
    \/ ~nodev.IsContinu /\ row[nodev.SplitAttrIdx] \in Range(nodev.SplitSet)

\* The position of the leaf that traversal ends at; 0 when it runs into a
\* missing child or does not end within the nodes of the tree.
RECURSIVE LeafReached(_, _, _, _)
LeafReached(tree, i, row, steps) ==
    IF i \notin 1..Len(tree) \/ steps > Len(tree) THEN 0
    ELSE IF tree[i].IsLeaf THEN i
    ELSE LeafReached(tree, IF TurnsLeft(tree[i], row) THEN tree[i].Left
                           ELSE tree[i].Right, row, steps + 1)

Leaves(tree) == {i \in 1..Len(tree) : tree[i].IsLeaf}

\* Every leaf was made from rows of one class.
AllLeavesSingleClass(tree) ==
    \A i \in Leaves(tree) : tree[i].Data # <<>> /\ ~Mixed(tree[i].Data)

C12_ClassifyReachesLeaf ==
    cartPc = "classified" =>
        /\ \A i \in 1..Len(cartTree) :
              ~cartTree[i].IsLeaf =>
                  /\ cartTree[i].Left \in (i + 1)..Len(cartTree)
                  /\ cartTree[i].Right \in (i + 1)..Len(cartTree)
                  /\ cartTree[i].Left # cartTree[i].Right
        /\ \A row \in RowSpace :
              LET leaf == LeafReached(cartTree, 1, row, 0)
              IN  /\ leaf # 0
                  /\ cartTree[leaf].IsLeaf
                  /\ cartClassified[row] = cartTree[leaf].Class

\* Rows were classified by a tree with a discrete split below a continuous
\* one at the root, some to another class than the one on the other side of
\* the root.
C12_Witness ==
    /\ cartPc = "classified"
    /\ ~cartTree[1].IsLeaf /\ cartTree[1].IsContinu
    /\ \E i \in 2..Len(cartTree) : ~cartTree[i].IsLeaf /\ ~cartTree[i].IsContinu
    /\ \E r1, r2 \in RowSpace :
          /\ TurnsLeft(cartTree[1], r1) /\ ~TurnsLeft(cartTree[1], r2)
          /\ cartClassified[r1] # cartClassified[r2]

\* ------------------------------------------------- properties of the splits
\* The nodes at which the builder computed the gains.
Computed(tree) == {i \in 1..Len(tree) : tree[i].Ginis # <<>>}

\* The Gini records of node i that were computed from a column.
Searched(nodev) ==
    {x \in 1..Len(nodev.Ginis) : x # ClassIndex /\ ~nodev.Ginis[x].Skip}

\* C13: the gain of every candidate threshold p of a continuous attribute is
\* computed over left = the rows with value < p and right = the rows with
\* value >= p, and the builder divides the rows of the chosen split the same
\* way: a row whose value equals the threshold is on the right.
C13_SamePartition ==
    \A i \in Computed(cartTree) :
        LET nodev == cartTree[i] IN
        /\ \A x \in Searched(nodev) :
              nodev.Ginis[x].IsContinu =>
                \A p \in 1..Len(nodev.Ginis[x].ContinuPart) :
                    nodev.Ginis[x].PartIdx[p] =
                        Cardinality({k \in 1..Len(nodev.Data) :
                            2 * nodev.Data[k][x] < nodev.Ginis[x].ContinuPart[p]})
        /\ (~nodev.IsLeaf /\ nodev.IsContinu) =>
              /\ Range(cartTree[nodev.Left].Ids) =
                    {id \in Range(nodev.Ids) :
                        2 * cartD[id][nodev.SplitAttrIdx] < nodev.SplitNum}
              /\ Range(cartTree[nodev.Right].Ids) =
                    {id \in Range(nodev.Ids) :
                        2 * cartD[id][nodev.SplitAttrIdx] >= nodev.SplitNum}

\* The nodes on the way from the root to node i, i left out.
RECURSIVE Ancestors(_, _)
Ancestors(tree, i) ==
    IF tree[i].Parent = 0 THEN {}
    ELSE {tree[i].Parent} \cup Ancestors(tree, tree[i].Parent)

Internal(tree) == {i \in 1..Len(tree) : ~tree[i].IsLeaf}

\* C14: after a node splits on an attribute, the attribute is flagged as
\* parent in both children and is not the split attribute of any node below:
\* on a path from the root to a leaf no attribute is split on twice.
C14_NoResplitBelow ==
    \A i \in Internal(cartTree) :
        /\ \A c \in Children(cartTree[i]) :
              HasFlag(cartTree[c].Flag[cartTree[i].SplitAttrIdx], ColFlagParent)
        /\ \A j \in Internal(cartTree) :
              i \in Ancestors(cartTree, j) =>
                  cartTree[j].SplitAttrIdx # cartTree[i].SplitAttrIdx

\* What the claim says of the gain search at node i when n features are
\* picked at random: exactly n attributes are searched, none of them the
\* class or flagged as parent; every other attribute is skipped, its record
\* left with gain 0, and is not the split attribute of the node.
SearchRestricted(nodev, n) ==
    /\ Cardinality(Searched(nodev)) = n
    /\ \A x \in Searched(nodev) :
          x # ClassIndex /\ ~HasFlag(nodev.Flag[x], ColFlagParent)
    /\ \A x \in (1..NColumn) \ (Searched(nodev) \cup {ClassIndex}) :
          /\ nodev.Ginis[x].Skip
          /\ nodev.Ginis[x].MaxGainValue = Zero
          /\ nodev.Ginis[x].Gain = <<>>
          /\ ~nodev.IsLeaf => nodev.SplitAttrIdx # x

MaxOf(s) == CHOOSE m \in Range(s) : \A v \in Range(s) : ~RLess(m, v)

MinOfSet(S) == CHOOSE m \in S : \A v \in S : m <= v

\* The candidate kept for a Gini record is the first of those with the
\* greatest gain.
FirstBestKept(g) ==
    /\ g.MaxGainValue = MaxOf(g.Gain)
    /\ g.MaxPartGain = MinOfSet({p \in 1..Len(g.Gain) : g.Gain[p] = MaxOf(g.Gain)})

\* C16: the chosen split has maximum gain: within an attribute the kept
\* candidate is the first of those with the greatest gain, and the split
\* attribute is the first of the searched attributes whose best gain is the
\* greatest of all; the node splits by that attribute's kept candidate.
C16_FirstMaximumGain ==
    \A i \in Computed(cartTree) :
        LET nodev == cartTree[i]
            best == MaxOf([k \in 1..Len(nodev.Gain) |-> nodev.Gain[k]])
        IN  /\ \A x \in Searched(nodev) : FirstBestKept(nodev.Ginis[x])
            /\ ~nodev.IsLeaf =>
                  /\ nodev.SplitAttrIdx =
                        MinOfSet({x \in Searched(nodev) :
                                    nodev.Ginis[x].MaxGainValue = best})
                  /\ LET g == nodev.Ginis[nodev.SplitAttrIdx]
                     IN  IF g.IsContinu
                         THEN nodev.SplitNum = g.ContinuPart[g.MaxPartGain]
                         ELSE nodev.SplitSet = g.DiscretePart[g.MaxPartGain][1]

\* A node split on the continuous attribute by the first of two thresholds
\* of the same greatest gain, while the discrete attribute, after it, had the
\* same best gain.
C16_Witness ==
    \E i \in Internal(cartTree) :
        LET nodev == cartTree[i] IN
        /\ Searched(nodev) = {ColReal, ColNominal}
        /\ nodev.SplitAttrIdx = ColReal
        /\ ColReal < ColNominal
        /\ nodev.Ginis[ColNominal].MaxGainValue = nodev.Ginis[ColReal].MaxGainValue
        /\ \E p \in 1..Len(nodev.Ginis[ColReal].Gain) :
              /\ p > nodev.Ginis[ColReal].MaxPartGain
              /\ nodev.Ginis[ColReal].Gain[p] = nodev.Ginis[ColReal].MaxGainValue

\* --------------------------------------- properties of the Gini computation
\* The values and the targets the continuous computation worked on, in
\* sorted order.
SortedA == gini.Sorted[1]

SortedT == gini.Sorted[2]

ContinuDone == gini # <<>> /\ gini.IsContinu

\* The positions i whose midpoint of the values i and i+1 is no value of the
\* attribute (thresholds and midpoints are kept doubled).
MidKept(A) ==
    {i \in 1..(Len(A) - 1) :
        \A j \in 1..Len(A) : 2 * A[j] # A[i] + A[i + 1]}

\* C17: the candidate thresholds of a sorted continuous attribute are the
\* first value halved, then, in order, the midpoint of every two consecutive
\* values that is not a value of the attribute, then the first candidate plus
\* the last value; no candidate but the first and the last is a value of the
\* attribute.
C17_ContinuCandidates ==
    ContinuDone =>
        LET A == SortedA
            part == gini.ContinuPart
            n == Len(part)
        IN  /\ \A i \in 1..(Len(A) - 1) : A[i] <= A[i + 1]
            /\ n = Cardinality(MidKept(A)) + 2
            /\ part[1] = A[1]
            /\ part[n] = part[1] + 2 * A[Len(A)]
            /\ \A p \in 2..(n - 1) :
                  /\ \E i \in MidKept(A) :
                        /\ part[p] = A[i] + A[i + 1]
                        /\ Cardinality({h \in MidKept(A) : h < i}) = p - 2
                  /\ \A j \in 1..Len(A) : part[p] # 2 * A[j]

\* Values given out of order, with a repeated value (its midpoint is
\* left out) and two midpoints that are kept.
C17_Witness ==
    /\ ContinuDone
    /\ gini.SortedIndex # [i \in 1..Len(giniA) |-> i]
    /\ \E i \in 1..(Len(SortedA) - 1) : SortedA[i] = SortedA[i + 1]
    /\ Cardinality(MidKept(SortedA)) = 2
    /\ Len(gini.ContinuPart) = 4

\* The rows are separated into two classes by one cut between the
\* consecutive values lo < hi of the attribute A with targets T.
PerfectCut(A, T, lo, hi) ==
    /\ lo < hi
    /\ \A i \in 1..Len(A) : A[i] <= lo \/ A[i] >= hi
    /\ \E c, d \in Range(ClassVS) :
          /\ c # d
          /\ \A i \in 1..Len(A) : T[i] = (IF A[i] <= lo THEN c ELSE d)

\* How many rows have the value v and the target c.
CountPair(A, T, v, c) ==
    Cardinality({i \in 1..Len(A) : A[i] = v /\ T[i] = c})

\* The threshold kept by the computation (doubled).
MaxPartValue == gini.ContinuPart[gini.MaxPartGain]

\* C18: after sorting, every sorted position holds the value and the target
\* of one and the same row; and when the rows, in whatever order they are
\* given, are separated into two classes by one cut between the consecutive
\* values lo < hi, the threshold chosen by ComputeContinu lies strictly
\* between lo and hi.
C18_PerfectCutChosen ==
    ContinuDone =>
        /\ \A v \in Range(giniA), c \in Range(ClassVS) :
              CountPair(SortedA, SortedT, v, c) = CountPair(giniA, giniT, v, c)
        /\ \A lo, hi \in Range(giniA) :
              PerfectCut(giniA, giniT, lo, hi) =>
                  2 * lo < MaxPartValue /\ MaxPartValue < 2 * hi

\* The greatest Gini impurity over the classes: 1 - 1/|classes|.
MaxImpurity == <<Len(ClassVS) - 1, Len(ClassVS)>>

ImpurityInBounds(v) == ~RLess(v, Zero) /\ ~RLess(MaxImpurity, v) /\ ~IsNaN(v)

\* C19: for a continuous or a discrete attribute and every candidate split,
\* the Gini impurity of the whole set and of each side lies between 0 and
\* 1 - 1/|classes|, and the gain of every candidate is at least 0.
C19_ImpurityBounds ==
    gini # <<>> =>
        /\ ImpurityInBounds(gini.Value)
        /\ \A p \in 1..Len(gini.PartGini) :
              \A g \in 1..Len(gini.PartGini[p]) :
                  ImpurityInBounds(gini.PartGini[p][g])
        /\ \A p \in 1..Len(gini.Gain) :
              ~IsNaN(gini.Gain[p]) /\ ~RLess(gini.Gain[p], Zero)

\* ------------------------------------------- properties of set partitioning
\* The Stirling number of the second kind: in how many ways n elements are
\* partitioned into k non-empty groups.
RECURSIVE StirlingS2(_, _)
StirlingS2(n, k) ==
    IF n = k THEN 1
    ELSE IF k = 0 \/ k > n THEN 0
    ELSE k * StirlingS2(n - 1, k) + StirlingS2(n - 1, k - 1)

\* How many times el occurs in the partition list (a list of groups).
Occurrences(list, el) ==
    Cardinality({<<g, i>> \in (1..Len(list)) \X (1..MaxSet + 1) :
                    i <= Len(list[g]) /\ list[g][i] = el})

\* The list has k non-empty groups and every element of seed is in one and
\* only one of them.
IsPartition(list, seed, k) ==
    /\ Len(list) = k
    /\ \A g \in 1..Len(list) : list[g] # <<>>
    /\ \A g \in 1..Len(list) : Range(list[g]) \subseteq Range(seed)
    /\ \A el \in Range(seed) : Occurrences(list, el) = 1

GroupsOf(list) == {Range(list[g]) : g \in 1..Len(list)}

\* C20: PartitioningTableStrings(values, k) of n distinct values returns
\* all partitions of the set into k groups, each once: every returned list
\* has k non-empty groups with every value in one and only one group, no two
\* lists are the same partition, and there are S(n,k) of them, which is
\* 2^(n-1) - 1 for k = 2.
C20_AllPartitionsOnce ==
    rset # <<>> =>
        LET n == Len(orgseed)
            table == rset.table
        IN  /\ \A i \in 1..Len(table) : IsPartition(table[i], orgseed, rset.k)
            /\ \A i, j \in 1..Len(table) :
                  i # j => GroupsOf(table[i]) # GroupsOf(table[j])
            /\ Len(table) = StirlingS2(n, rset.k)
            /\ rset.k = 2 => Len(table) = 2 ^ (n - 1) - 1

\* ------------------------------------------------ properties of the statistics
\* A rate is between 0 and 1.
In01(r) == ~IsNaN(r) /\ r # PosInf /\ ~RLess(r, Zero) /\ ~RLess(<<1, 1>>, r)

\* The matrix added last is the one of cmActuals and cmPredicts.
LastCM == cmatrices[Len(cmatrices)]

HasCM == cmatrices # <<>> /\ Len(cmActuals) = Len(cmPredicts)

\* C21: for actual and predicted classes of the same length n the counts of
\* the confusion matrix add up to n, TP + FP + TN + FN = n and number of true
\* plus number of false classifications = n, every sample counted once, and
\* every rate taken from them is within 0..1 when its denominator is not 0.
C21_MarginalIdentity ==
    HasCM =>
        LET cm == LastCM
            n == Len(cmActuals)
            tp == TP(cm)
            fp == FP(cm)
            tn == TN(cm)
            fn == FN(cm)
        IN  /\ tp + fp + tn + fn = n
            /\ cm.nTrue + cm.nFalse = n
            /\ cm.nSamples = n
            /\ tp + fn # 0 => In01(Rat(tp, tp + fn))
            /\ fp + tn # 0 => In01(Rat(fp, fp + tn)) /\ In01(Rat(tn, fp + tn))
            /\ tp + fp # 0 => In01(Rat(tp, tp + fp))
            /\ n # 0 => In01(Rat(tp + tn, tp + tn + fp + fn))
            /\ cm.nTrue + cm.nFalse # 0 => In01(GetFalseRate(cm))

\* The parts of C21 on their own: the four counts, the rates, and the
\* numbers of true and false classifications.
C21_CountsAddUp ==
    HasCM => TP(LastCM) + FP(LastCM) + TN(LastCM) + FN(LastCM) = Len(cmActuals)

C21_RatesIn01 ==
    HasCM =>
        LET cm == LastCM
        IN  /\ TP(cm) + FN(cm) # 0 => In01(Rat(TP(cm), TP(cm) + FN(cm)))
            /\ FP(cm) + TN(cm) # 0 => In01(Rat(FP(cm), FP(cm) + TN(cm)))
            /\ TP(cm) + FP(cm) # 0 => In01(Rat(TP(cm), TP(cm) + FP(cm)))
            /\ cm.nTrue + cm.nFalse # 0 => In01(GetFalseRate(cm))

C21_TrueFalseAddUp ==
    HasCM => LastCM.nTrue + LastCM.nFalse = Len(cmActuals)

\* A float64 that is a number: neither NaN nor infinite.
Defined(r) == ~IsNaN(r) /\ r # PosInf

\* The rates of a statistics row are numbers, and 0 where the denominator
\* taken from the counts of the row is 0.
RatesDefined(st) ==
    /\ Defined(st.TPRate) /\ Defined(st.FPRate) /\ Defined(st.TNRate)
    /\ Defined(st.Precision) /\ Defined(st.FMeasure) /\ Defined(st.Accuracy)
    /\ st.TP + st.FN = 0 => st.TPRate = Zero
    /\ st.FP + st.TN = 0 => st.FPRate = Zero /\ st.TNRate = Zero
    /\ st.TP + st.FP = 0 => st.Precision = Zero
    /\ st.TP + st.TN + st.FP + st.FN = 0 => st.Accuracy = Zero
    /\ st.Precision = Zero \/ st.TPRate = Zero => st.FMeasure = Zero

\* C22: TPR, FPR, Precision, F-measure and Accuracy of every per-tree row
\* and of the totals row are numbers, never NaN or infinite, and 0 when
\* their denominator is 0; the F-measure is 0 when Precision or TPR is 0.
C22_RatesDefined ==
    /\ \A i \in 1..Len(stats) : RatesDefined(stats[i])
    /\ RatesDefined(statTotal)

\* Two rows: one of no sample at all (every denominator 0), one with
\* negatives only (TPR and Precision without denominator, FPR with one), and
\* totals whose F-measure is 0 for want of a positive.
C22_Witness ==
    /\ Len(stats) = 2
    /\ stats[1].TP + stats[1].TN + stats[1].FP + stats[1].FN = 0
    /\ stats[1].Accuracy = Zero
    /\ stats[2].TP + stats[2].FN = 0 /\ stats[2].TP + stats[2].FP = 0
    /\ stats[2].TN = 2
    /\ stats[2].TPRate = Zero /\ stats[2].Precision = Zero
    /\ stats[2].FMeasure = Zero
    /\ stats[2].Accuracy = <<1, 1>>
    /\ statTotal.TN = 2 /\ statTotal.FMeasure = Zero
    /\ statTotal.TNRate = <<1, 1>>

\* Where Precision and TPR are both above 0 the F-measure is their harmonic
\* mean.
C22_FMeasureValue ==
    \A i \in 1..Len(stats) :
        LET st == stats[i]
        IN  st.Precision # Zero /\ st.TPRate # Zero =>
                st.FMeasure = Rat(2 * st.TP, 2 * st.TP + st.FP + st.FN)

SumOf(f(_)) == SumSeq([i \in 1..Len(stats) |-> f(stats[i])])

StatTP(st) == st.TP
StatFP(st) == st.FP
StatTN(st) == st.TN
StatFN(st) == st.FN

\* C23: the TP, FP, TN and FN of the totals are the sums of the ones of the
\* per-tree rows, and the rates of the totals are taken from these sums, not
\* as the mean of the rates of the rows.
C23_TotalsFromSums ==
    LET tp == SumOf(StatTP)
        fp == SumOf(StatFP)
        tn == SumOf(StatTN)
        fn == SumOf(StatFN)
    IN  /\ statTotal.TP = tp /\ statTotal.FP = fp
        /\ statTotal.TN = tn /\ statTotal.FN = fn
        /\ statTotal.TPRate = RateOf(tp, tp + fn)
        /\ statTotal.FPRate = RateOf(fp, fp + tn)
        /\ statTotal.TNRate = RateOf(tn, fp + tn)
        /\ statTotal.Precision = RateOf(tp, tp + fp)
        /\ statTotal.Accuracy = RateOf(tp + tn, tp + tn + fp + fn)
        /\ statTotal.FMeasure =
               IF tp = 0 THEN Zero ELSE Rat(2 * tp, 2 * tp + fp + fn)

\* Two rows whose TPR are 1 and 1/3 (mean 2/3) and whose counts add up to
\* two of four positives found: the TPR of the totals is 1/2.
C23_Witness ==
    /\ Len(stats) = 2
    /\ stats[1].TPRate = <<1, 1>>
    /\ stats[2].TPRate = <<1, 3>>
    /\ statTotal.TP = 2 /\ statTotal.FN = 2
    /\ statTotal.TPRate = <<1, 2>>

\* ------------------------------------------------- properties of Initialize
\* round(sqrt(n))
RoundSqrt(n) ==
    CHOOSE r \in 0..n : (2 * r - 1) * (2 * r - 1) <= 4 * n
                        /\ 4 * n < (2 * r + 1) * (2 * r + 1)

\* The features of the samples: the columns without the class.
NFeature == samplesNColumn - 1

Initialized == pc = "new" /\ pc' # "new"

\* C24: Initialize does not fail because of an invalid configuration and
\* corrects it: a tree count not above 0 becomes 100, a bootstrap percentage
\* not above 0 becomes 66, and a number of random features that is not above
\* 0 or exceeds the number of features becomes round(sqrt(number of
\* features)).
C24_ConfigCorrected ==
    [][Initialized =>
        /\ buildErr' # "nil" => statsFile' = <<<<"openfail">>>>
        /\ NTree' = IF NTree <= 0 THEN 100 ELSE NTree
        /\ PercentBoot' = IF PercentBoot <= 0 THEN 66 ELSE PercentBoot
        /\ NRandomFeature' = IF NRandomFeature <= 0 \/ NRandomFeature > NFeature
                             THEN RoundSqrt(NFeature) ELSE NRandomFeature]_vars

\* The parts of C24 on their own: no error but the one of opening the
\* statistics file, tree count and bootstrap percentage, a number of random
\* features above the number of features, and the default of the number of
\* random features.
C24_NoConfigError ==
    [][Initialized =>
        (buildErr' # "nil" => statsFile' = <<<<"openfail">>>>)]_vars

C24_TreeAndBootDefaults ==
    [][Initialized =>
        /\ NTree' = IF NTree <= 0 THEN 100 ELSE NTree
        /\ PercentBoot' = IF PercentBoot <= 0 THEN 66 ELSE PercentBoot]_vars

C24_TooManyFeaturesCorrected ==
    [][Initialized /\ NRandomFeature > NFeature =>
        NRandomFeature' = RoundSqrt(NFeature)]_vars

C24_FeatureDefaultRounded ==
    [][Initialized /\ NRandomFeature <= 0 =>
        NRandomFeature' = RoundSqrt(NFeature)]_vars

C24_FeatureDefaultTruncated ==
    [][Initialized /\ NRandomFeature <= 0 =>
        NRandomFeature' = Isqrt(NFeature)]_vars

C24_FeaturesAtMostAvailable ==
    pc # "new" => NRandomFeature <= NFeature

\* ------------------------------------------- properties of Build's input
\* Build has returned the input error at once: nothing was drawn, grown,
\* added or written.
InputErrorAtOnce ==
    /\ pc = "done"
    /\ buildErr = "ErrNoInput"
    /\ trees = <<>> /\ bagIndices = <<>> /\ cmatrices = <<>> /\ stats = <<>>
    /\ growErrs = <<>>
    /\ statsFile = <<>>

\* C25: Build on an empty input, samples without rows or no samples at all,
\* returns an input error at once: no bootstrap sample is drawn and no tree
\* is attempted or added.
C25_EmptyInputError ==
    (samples = <<>> /\ pc # "new") => InputErrorAtOnce

\* The two cases of C25 on their own: no samples at all, and samples
\* without rows.
C25_NilInputError ==
    (samplesIsNil /\ pc # "new") => InputErrorAtOnce

C25_NoRowsNoTree ==
    (samples = <<>> /\ ~samplesIsNil) => growErrs = <<>>

CellsTotal(cm) ==
    SumSeq([x \in 1..Len(cm.cells) |-> SumSeq(cm.cells[x])])

\* The trees the builder may return for the rows at the indices bag.
TreesOfBag(bag) ==
    {Nodes(c) : c \in splitTreeByGain(NewReader(RowsAt(bag)), NRandomFeature)}

OneFullTree ==
    /\ pc # "new"
    /\ NTree = 1
    /\ PercentBoot = 100
    /\ NRandomFeature = NColumn - 1

AllRows == [i \in 1..Len(samples) |-> i - 1]

\* C28: a forest with NTree = 1, PercentBoot = 100 and no restriction of the
\* features is one ordinary CART tree on the whole dataset: the bag is
\* every row once, the OOB set of the tree is empty and no OOB statistic is
\* computed, or it is zero.
C28_SingleFullTree ==
    OneFullTree =>
        \A k \in 1..Len(trees) :
            /\ \A i \in 0..(Len(samples) - 1) :
                  Cardinality({j \in 1..Len(bagIndices[k]) :
                                  bagIndices[k][j] = i}) = 1
            /\ OobIdx(bagIndices[k]) = <<>>
            /\ trees[k] \in TreesOfBag(AllRows)
            /\ RunOOB => /\ CellsTotal(cmatrices[k]) = 0
                         /\ stats[k].OobError \in {Zero, NaN}

\* C28 as the code has it: the one tree is an ordinary CART tree on a bag
\* of N draws with replacement, the OOB rows are the rows no draw took, and
\* with OOB evaluation they and only they are counted in the matrix of the
\* tree; when the draws are the rows in their order the tree is one of the
\* whole dataset and nothing is out of bag.
C28_SingleBootstrapTree ==
    OneFullTree =>
        /\ Len(bagIndices) = Len(trees)
        /\ \A k \in 1..Len(trees) :
              LET bag == bagIndices[k]
                  oob == OobIdx(bag)
              IN  /\ Len(bag) = Len(samples)
                  /\ trees[k] \in TreesOfBag(bag)
                  /\ Len(oob) = Len(samples) - Cardinality(Range(bag))
                  /\ RunOOB => CellsTotal(cmatrices[k]) = Len(oob)
                  /\ ~RunOOB => cmatrices = <<>> /\ stats[k].OobError = Zero
                  /\ Cardinality(Range(bag)) = Len(samples) =>
                        /\ oob = <<>>
                        /\ RunOOB => CellsTotal(cmatrices[k]) = 0
                  /\ bag = AllRows => trees[k] \in TreesOfBag(AllRows)

\* Two rows of different classes, both draws took row 0: the tree is a leaf,
\* not a tree of the whole dataset, and row 1 is out of bag and counted.
C28_Witness ==
    /\ OneFullTree
    /\ RunOOB
    /\ Len(samples) = 2
    /\ samples[1][ClassIndex] # samples[2][ClassIndex]
    /\ samples[1][ColReal] # samples[2][ColReal]
    /\ Len(trees) = 1
    /\ bagIndices[1] = <<0, 0>>
    /\ trees[1] \notin TreesOfBag(AllRows)
    /\ CellsTotal(cmatrices[1]) = 1

\* --------------------------------------- properties of a failed GrowTree
\* A GrowTree call returned, and returned an error.
GrowTreeFailed ==
    /\ Len(growErrs') = Len(growErrs) + 1
    /\ growErrs'[Len(growErrs')] # "nil"

\* The lists of the forest are of one length and entry i of each is the one
\* of tree i.
ListsAligned ==
    /\ Len(bagIndices) = Len(trees)
    /\ Len(stats) = Len(trees)
    /\ RunOOB => Len(cmatrices) = Len(trees)
    /\ \A i \in 1..Len(stats) : stats[i].ID = i - 1

\* C29 as a whole: a GrowTree call that returns an error leaves the forest as
\* it was before the call, no tree, bag-index list, confusion matrix or
\* statistics entry added, and so the lists are of one length with entry i
\* of each belonging to tree i.
C29_FailedGrowTreeAddsNothing ==
    [][/\ GrowTreeFailed => /\ trees' = trees
                            /\ bagIndices' = bagIndices
                            /\ cmatrices' = cmatrices
                            /\ stats' = stats
                            /\ statTotal' = statTotal
       /\ ListsAligned']_vars

\* The parts of C29 on their own: the error of the tree builder, the error
\* of writing the statistics row, and the lists.
C29_CartFailureAddsNothing ==
    [][GrowTreeFailed /\ growErrs'[Len(growErrs')] = "cart" =>
          /\ trees' = trees /\ bagIndices' = bagIndices
          /\ cmatrices' = cmatrices /\ stats' = stats
          /\ statTotal' = statTotal]_vars

C29_WriteFailureAddsNothing ==
    [][GrowTreeFailed /\ growErrs'[Len(growErrs')] = "write" =>
          /\ trees' = trees /\ bagIndices' = bagIndices
          /\ cmatrices' = cmatrices /\ stats' = stats]_vars

C29_ListsAligned == ListsAligned

\* ------------------------------------------ properties of the recursion
\* C30: building a tree ends for every dataset, since every split that was
\* chosen, its gain being above 0, sends at least one row to each child:
\* each child has fewer rows than its parent and no node is deeper than the
\* dataset has rows.
C30_SplitsShrink ==
    /\ cartPc = "new" => splitTreeByGain(NewReader(cartD), cartN) # {}
    /\ \A i \in Internal(cartTree) :
          /\ RLess(Zero, cartTree[i].Ginis[cartTree[i].SplitAttrIdx].MaxGainValue)
          /\ \A c \in Children(cartTree[i]) :
                /\ Len(cartTree[c].Data) >= 1
                /\ Len(cartTree[c].Data) < Len(cartTree[i].Data)
    /\ \A i \in 1..Len(cartTree) :
          Cardinality(Ancestors(cartTree, i)) <= Len(cartD)

\* The parts of C30 on their own: the builder returns a tree, a split has a
\* gain above 0, no child of a split is empty, no child has all the rows of
\* its parent, the rows of a parent are the rows of its children, and the
\* depth of a node is at most the number of rows.
C30_BuilderReturns ==
    cartPc = "new" => splitTreeByGain(NewReader(cartD), cartN) # {}

C30_SplitGainPositive ==
    \A i \in Internal(cartTree) :
        RLess(Zero, cartTree[i].Ginis[cartTree[i].SplitAttrIdx].MaxGainValue)

C30_NoEmptyChild ==
    \A i \in Internal(cartTree) : \A c \in Children(cartTree[i]) :
        Len(cartTree[c].Data) >= 1

C30_FewerRows ==
    \A i \in Internal(cartTree) : \A c \in Children(cartTree[i]) :
        Len(cartTree[c].Data) < Len(cartTree[i].Data)

C30_RowsDivided ==
    \A i \in Internal(cartTree) :
        Len(cartTree[cartTree[i].Left].Data)
            + Len(cartTree[cartTree[i].Right].Data) = Len(cartTree[i].Data)

C30_DepthBounded ==
    \A i \in 1..Len(cartTree) :
        Cardinality(Ancestors(cartTree, i)) <= Len(cartD)

\* A split on the discrete attribute leaves no child empty.
C30_DiscreteSplitShrinks ==
    \A i \in Internal(cartTree) :
        ~cartTree[i].IsContinu =>
            \A c \in Children(cartTree[i]) :
                /\ Len(cartTree[c].Data) >= 1
                /\ Len(cartTree[c].Data) < Len(cartTree[i].Data)

\* A split on the continuous attribute leaves a child empty only when its
\* threshold is not above the smallest value of the node's rows.
C30_EmptyOnlyAtSmallest ==
    \A i \in Internal(cartTree) :
        (cartTree[i].IsContinu
            /\ \E c \in Children(cartTree[i]) : cartTree[c].Data = <<>>)
        => \A r \in 1..Len(cartTree[i].Data) :
              cartTree[i].SplitNum <= 2 * cartTree[i].Data[r][ColReal]

====
